---- MODULE Spec2Model ----
(***************************************************************************)
(* Model of the Savant REST/WebSocket relay (savant_relay.py).             *)
(*                                                                         *)
(* Python dictionaries are objects with identity: the model keeps them in  *)
(* a heap (a sequence of dictionaries indexed by object id), so that a     *)
(* value returned by a getter can be told apart from a copy of it.         *)
(***************************************************************************)
EXTENDS Integers, Sequences, FiniteSets, TLC

\* ------------------------------------------------------------------------
\* Bounds of the model
\* ------------------------------------------------------------------------
MaxObjs == 6
MaxTime == 1
NumWriters == 2
NumReaders == 2
MaxRequests == 1
MaxLog == 2
MaxConns == 2
MaxEvents == 2
MaxWrites == 2
MaxAttempts == 2
MaxCalls == 1
MaxStarts == 2
MaxStops == 2

\* ------------------------------------------------------------------------
\* State
\* ------------------------------------------------------------------------
VARIABLES
    heap,              \* object id -> dictionary (all dict objects of the process)
    component_states,  \* StateCache.component_states : id of the top-level dict
    light_levels,      \* StateCache.light_levels     : id of the top-level dict
    zone_states,       \* StateCache.zone_states      : id of the top-level dict
    last_update,       \* StateCache.last_update
    lock,              \* StateCache.lock : the thread holding it, or NoThread
    pc,                \* per thread: position inside its current StateCache call
    frame,             \* per thread: the call's arguments and return value
    passed,            \* history: per writer, the <<object, contents>> it has passed
    committed,         \* history: per writer, the number of calls that have returned
    seen,              \* history: per reader, `committed' when its call began
    SAVANT_UIS_PORT,   \* the controller's command port, set once at start-up
    request,           \* the HTTP request being handled (NoRequest between requests)
    response,          \* the status line sent for it (0: none)
    sock,              \* the UDP socket handle_command created for it
    udp,               \* every datagram handed to the network so far
    udpBefore,         \* history: Len(udp) when the request arrived
    handled,           \* number of requests handled
    db,                \* the LightEntities rows of the configuration database
    syslog,            \* /var/log/syslog: the lines written so far
    tailerPc,          \* syslog_watcher_thread: where the thread is
    f_pos,             \* syslog_watcher_thread: lines of the file behind f
    f_start,           \* history: f_pos right after the seek to the end
    tailerSnap,        \* syslog_watcher_thread: the map get_lights() returned
    tailerKey,         \* syslog_watcher_thread: the key found for the address
    hadEntry,          \* history: DimmerSet lines whose address was in the cache
    stored,            \* history: the object of the tailer's last update_light
    broadcasts,        \* the messages handed to WS_SERVER.broadcast, in order
    clients,           \* WebSocketServer.clients : the broadcast list
    conn,              \* per connection: its worker, its socket and what it was sent
    wsEvents,          \* number of client events and broadcast calls so far
    cast,              \* history: the last broadcast call
    met,               \* history: the last turn of a worker loop and what recv met
    txFrame,           \* frame codec: the opcode and data given to _send_frame
    wire,              \* frame codec: the bytes _send_frame wrote
    rxFrame,           \* frame codec: what the frame reader made of those bytes
    avahi,             \* what the discovery command did when the module was loaded
    mainPc,            \* main(): where the main thread is
    listener,          \* WebSocketServer._server_loop: where the thread is
    dbUp,              \* whether the configuration database can be read
    statusDir,         \* the status directory: file name -> content and mtime
    watcherPc,         \* plist_watcher_thread: where the thread is
    globbed,           \* plist_watcher_thread: what glob.glob returned at start
    scanned,           \* plist_watcher_thread: the files of the initial loop done,
                       \* each with the content it was loaded with
    events,            \* the inotify queue of the status directory
    buf,               \* plist_watcher_thread: the events read and not yet handled
    file_mtimes,       \* plist_poller_thread: file name -> mtime seen last
    writes,            \* number of writes to the status directory so far
    loaded,            \* history: the last load_plist_to_cache call of the watcher
    dirty,             \* history: files written since the watcher loaded them last
    parseFailed,       \* history: the watcher loop has met a file it could not parse
    setup,             \* history: how the watcher's event-driven setup ended
    polled,            \* history: the last file the poller looked at
    lutPc,             \* lutron_listener_thread: where the thread is
    socks,             \* every socket created for the lighting controller
    lsock,             \* lutron_listener_thread: the local variable sock
    exc_tb,            \* lutron_listener_thread: socket held by the last traceback
    waited,            \* history: time.sleep(5) has run since the last session
    attempts,          \* number of connection attempts of the listener so far
    query,             \* query_lutron_levels: the call in progress or returned last
    listener_map,      \* lutron_listener_thread: address_map, loaded once at the start
    light,             \* a SavantLight entity
    player,            \* a SavantMediaPlayer entity
    haSent,            \* the command the entity handed to client.send_command last
    haIn,              \* history: the arguments of the last entity method call
    clients_lock,      \* WebSocketServer.clients_lock : the thread holding it, or NoThread
    tpc,               \* per thread of the relay: where it is between lock and socket calls
    bc,                \* WebSocketServer.broadcast: the clients still to send to, and
                       \* dead_clients
    sending,           \* the <<thread, connection>> pairs inside client_socket.send
    raised,            \* history: the list.remove calls that raised ValueError
    removed,           \* history: per connection, how often it left the broadcast list
    ws_running,        \* SavantClient._ws_running
    ws_task,           \* SavantClient._ws_task: a task of `tasks', or NoTask
    tasks,             \* every task made of _websocket_loop: where it is, and whether
                       \* its cancellation has been requested
    stops,             \* the stop_websocket calls: where each is, the task it awaits
    starts             \* number of start_websocket calls so far

cacheVars == <<heap, component_states, light_levels, zone_states, last_update, lock>>
threadVars == <<pc, frame, passed, committed, seen>>
cmdVars == <<SAVANT_UIS_PORT, request, response, sock, udp, udpBefore, handled>>
tailVars == <<db, syslog, tailerPc, f_pos, f_start, tailerSnap, tailerKey, hadEntry, stored,
              broadcasts>>
wsVars == <<clients, conn, wsEvents, cast, met>>
frameVars == <<txFrame, wire, rxFrame>>
bootVars == <<avahi, mainPc, listener, dbUp>>
watchVars == <<statusDir, watcherPc, globbed, scanned, events, buf, file_mtimes,
               writes, loaded, dirty, parseFailed, setup, polled>>
lutVars == <<lutPc, socks, lsock, exc_tb, waited, attempts, query, listener_map>>
haVars == <<light, player, haSent, haIn>>
syncVars == <<clients_lock, tpc, bc, sending, raised, removed>>
clientVars == <<ws_running, ws_task, tasks, stops, starts>>
auxVars == <<watchVars, lutVars, haVars, syncVars, clientVars>>
srvVars == <<wsVars, frameVars, bootVars, auxVars>>
vars == <<cacheVars, threadVars, cmdVars, tailVars, srvVars>>

\* ------------------------------------------------------------------------
\* Dictionaries and the heap
\* ------------------------------------------------------------------------
NoObj == 0
NoThread == 0

\* the threads using the cache: N writers, M readers and one library caller
Writers == 1..NumWriters
Readers == (NumWriters + 1)..(NumWriters + NumReaders)
Caller  == NumWriters + NumReaders + 1
Threads == 1..Caller

\* writers use pairwise distinct component names
WriterComponent(w) == "component" \o ToString(w)

\* the state maps a writer may pass
EmptyDict == <<>>
StateMaps == {EmptyDict, [Power |-> "ON"], [Power |-> "OFF", Volume |-> "45"]}

Times == 1..MaxTime

\* d[k] = v  (insert or overwrite one key)
DictSet(d, k, v) == [x \in (DOMAIN d) \cup {k} |-> IF x = k THEN v ELSE d[x]]

\* del d[k]
DictDel(d, k) == [x \in (DOMAIN d) \ {k} |-> d[x]]

\* a new object holding d is created; its id is the next free one
NewId(h) == Len(h) + 1
Alloc(h, d) == Append(h, d)

\* the object o is overwritten in place
HeapSet(h, o, d) == [h EXCEPT ![o] = d]

\* ------------------------------------------------------------------------
\* StateCache: the bodies of the methods, executed with the lock held
\* ------------------------------------------------------------------------

\* a faulty update_component that rebinds the whole map: {component_name: states}
StoreComponentReplacing(h, cs, component_name, states) ==
    HeapSet(h, cs, DictSet(EmptyDict, component_name, states))

\* self.component_states[component_name] = states
StoreComponent(h, cs, component_name, states) ==
    HeapSet(h, cs, DictSet(h[cs], component_name, states))

\* self.light_levels[key] = data
StoreLight(h, ll, key, data) ==
    HeapSet(h, ll, DictSet(h[ll], key, data))

\* an update that has not reached the cache when the caller goes on
StoreZoneStateLate(h, zs, zone, key, value) == h

\* if zone not in self.zone_states: self.zone_states[zone] = {}
\* self.zone_states[zone][key] = value
StoreZoneState(h, zs, zone, key, value) ==
    LET h1 == IF zone \in DOMAIN h[zs]
              THEN h
              ELSE HeapSet(Alloc(h, EmptyDict), zs, DictSet(h[zs], zone, NewId(h)))
        z  == h1[zs][zone]
    IN  HeapSet(h1, z, DictSet(h1[z], key, value))

\* dict(d): a new top-level dictionary with the same keys and the same values
\* (the values are the ids of the very objects d holds)
DictCopy(h, o) == Alloc(h, h[o])

\* the dictionaries reachable from a top-level map, by value
Contents(h, o) == [k \in DOMAIN h[o] |-> h[h[o][k]]]

\* ------------------------------------------------------------------------
\* StateCache calls, step by step: `with self.lock:` is acquire, body, release
\* ------------------------------------------------------------------------
IdleFrame == [op |-> "none", args |-> <<>>, ret |-> NoObj]

InFlight == Cardinality({t \in Threads : pc[t] \notin {"idle", "returned", "mutated"}})
RoomForCall == Len(heap) + InFlight < MaxObjs

\* a faulty lock that never excludes anybody
LockFreeAlways(l) == TRUE

\* threading.Lock: free when nobody holds it
LockFree(l) == l = NoThread

\* with self.lock: (entry)
acquire(t) ==
    /\ pc[t] = "acquire"
    /\ LockFree(lock)
    /\ lock' = t
    /\ pc' = [pc EXCEPT ![t] = "body"]
    /\ UNCHANGED <<heap, component_states, light_levels, zone_states, last_update,
                   frame, passed, committed, seen>>
    /\ UNCHANGED <<cmdVars, tailVars, srvVars>>

\* self.last_update = time.time()
stamp(t) ==
    /\ pc[t] = "stamp"
    /\ \E now \in Times : last_update' = now
    /\ pc' = [pc EXCEPT ![t] = "release"]
    /\ UNCHANGED <<heap, component_states, light_levels, zone_states, lock,
                   frame, passed, committed, seen>>
    /\ UNCHANGED <<cmdVars, tailVars, srvVars>>

\* with self.lock: (exit), and the call returns
release(t) ==
    /\ pc[t] = "release"
    /\ lock' = IF lock = t THEN NoThread ELSE lock
    /\ pc' = [pc EXCEPT ![t] = "returned"]
    /\ committed' = IF t \in Writers
                     THEN [committed EXCEPT ![t] = @ + 1]
                     ELSE committed
    /\ UNCHANGED <<heap, component_states, light_levels, zone_states, last_update,
                   frame, passed, seen>>
    /\ UNCHANGED <<cmdVars, tailVars, srvVars>>

\* StateCache.update_component(component_name, states): the caller built `states`
update_component_call(t, component_name, m) ==
    /\ pc[t] = "idle"
    /\ RoomForCall
    /\ heap' = Alloc(heap, m)
    /\ frame' = [frame EXCEPT ![t] = [op |-> "update_component",
                                      args |-> <<component_name, NewId(heap)>>,
                                      ret |-> NoObj]]
    /\ passed' = IF t \in Writers
                  THEN [passed EXCEPT ![t] = Append(@, <<NewId(heap), m>>)]
                  ELSE passed
    /\ pc' = [pc EXCEPT ![t] = "acquire"]
    /\ UNCHANGED <<component_states, light_levels, zone_states, last_update, lock,
                   committed, seen>>
    /\ UNCHANGED <<cmdVars, tailVars, srvVars>>

update_component_body(t) ==
    /\ pc[t] = "body"
    /\ frame[t].op = "update_component"
    /\ heap' = StoreComponent(heap, component_states, frame[t].args[1], frame[t].args[2])
    /\ pc' = [pc EXCEPT ![t] = "stamp"]
    /\ UNCHANGED <<component_states, light_levels, zone_states, last_update, lock,
                   frame, passed, committed, seen>>
    /\ UNCHANGED <<cmdVars, tailVars, srvVars>>

\* StateCache.get_components()
get_components_call(t) ==
    /\ pc[t] = "idle"
    /\ RoomForCall
    /\ frame' = [frame EXCEPT ![t] = [op |-> "get_components", args |-> <<>>,
                                      ret |-> NoObj]]
    /\ seen' = IF t \in Readers THEN [seen EXCEPT ![t] = committed] ELSE seen
    /\ pc' = [pc EXCEPT ![t] = "acquire"]
    /\ UNCHANGED <<heap, component_states, light_levels, zone_states, last_update,
                   lock, passed, committed>>
    /\ UNCHANGED <<cmdVars, tailVars, srvVars>>

\* return dict(self.component_states)
get_components_body(t) ==
    /\ pc[t] = "body"
    /\ frame[t].op = "get_components"
    /\ heap' = DictCopy(heap, component_states)
    /\ frame' = [frame EXCEPT ![t].ret = NewId(heap)]
    /\ pc' = [pc EXCEPT ![t] = "release"]
    /\ UNCHANGED <<component_states, light_levels, zone_states, last_update, lock,
                   passed, committed, seen>>
    /\ UNCHANGED <<cmdVars, tailVars, srvVars>>

\* StateCache.update_light(key, data): the caller built `data`
update_light_call(t, key, data) ==
    /\ pc[t] = "idle"
    /\ RoomForCall
    /\ heap' = Alloc(heap, data)
    /\ frame' = [frame EXCEPT ![t] = [op |-> "update_light",
                                      args |-> <<key, NewId(heap)>>,
                                      ret |-> NoObj]]
    /\ pc' = [pc EXCEPT ![t] = "acquire"]
    /\ UNCHANGED <<component_states, light_levels, zone_states, last_update, lock,
                   passed, committed, seen>>
    /\ UNCHANGED <<cmdVars, tailVars, srvVars>>

update_light_body(t) ==
    /\ pc[t] = "body"
    /\ frame[t].op = "update_light"
    /\ heap' = StoreLight(heap, light_levels, frame[t].args[1], frame[t].args[2])
    /\ pc' = [pc EXCEPT ![t] = "stamp"]
    /\ UNCHANGED <<component_states, light_levels, zone_states, last_update, lock,
                   frame, passed, committed, seen>>
    /\ UNCHANGED <<cmdVars, tailVars, srvVars>>

\* StateCache.update_zone_state(zone, key, value)
update_zone_state_call(t, zone, key, value) ==
    /\ pc[t] = "idle"
    /\ RoomForCall
    /\ frame' = [frame EXCEPT ![t] = [op |-> "update_zone_state",
                                      args |-> <<zone, key, value>>,
                                      ret |-> NoObj]]
    /\ pc' = [pc EXCEPT ![t] = "acquire"]
    /\ UNCHANGED <<heap, component_states, light_levels, zone_states, last_update,
                   lock, passed, committed, seen>>
    /\ UNCHANGED <<cmdVars, tailVars, srvVars>>

update_zone_state_body(t) ==
    /\ pc[t] = "body"
    /\ frame[t].op = "update_zone_state"
    /\ heap' = StoreZoneState(heap, zone_states, frame[t].args[1],
                              frame[t].args[2], frame[t].args[3])
    /\ pc' = [pc EXCEPT ![t] = "stamp"]
    /\ UNCHANGED <<component_states, light_levels, zone_states, last_update, lock,
                   frame, passed, committed, seen>>
    /\ UNCHANGED <<cmdVars, tailVars, srvVars>>

\* StateCache.get_zone_state(zone)
get_zone_state_call(t, zone) ==
    /\ pc[t] = "idle"
    /\ RoomForCall
    /\ frame' = [frame EXCEPT ![t] = [op |-> "get_zone_state", args |-> <<zone>>,
                                      ret |-> NoObj]]
    /\ pc' = [pc EXCEPT ![t] = "acquire"]
    /\ UNCHANGED <<heap, component_states, light_levels, zone_states, last_update,
                   lock, passed, committed, seen>>
    /\ UNCHANGED <<cmdVars, tailVars, srvVars>>

\* return self.zone_states.get(zone, {}): the stored dictionary itself when the
\* zone is known, a new empty dictionary otherwise
get_zone_state_body(t) ==
    /\ pc[t] = "body"
    /\ frame[t].op = "get_zone_state"
    /\ LET zone == frame[t].args[1]
       IN  IF zone \in DOMAIN heap[zone_states]
           THEN /\ frame' = [frame EXCEPT ![t].ret = heap[zone_states][zone]]
                /\ heap' = heap
           ELSE /\ heap' = Alloc(heap, EmptyDict)
                /\ frame' = [frame EXCEPT ![t].ret = NewId(heap)]
    /\ pc' = [pc EXCEPT ![t] = "release"]
    /\ UNCHANGED <<component_states, light_levels, zone_states, last_update, lock,
                   passed, committed, seen>>
    /\ UNCHANGED <<cmdVars, tailVars, srvVars>>

\* StateCache.get_all_zone_states()
get_all_zone_states_call(t) ==
    /\ pc[t] = "idle"
    /\ RoomForCall
    /\ frame' = [frame EXCEPT ![t] = [op |-> "get_all_zone_states", args |-> <<>>,
                                      ret |-> NoObj]]
    /\ pc' = [pc EXCEPT ![t] = "acquire"]
    /\ UNCHANGED <<heap, component_states, light_levels, zone_states, last_update,
                   lock, passed, committed, seen>>
    /\ UNCHANGED <<cmdVars, tailVars, srvVars>>

\* return dict(self.zone_states)
get_all_zone_states_body(t) ==
    /\ pc[t] = "body"
    /\ frame[t].op = "get_all_zone_states"
    /\ heap' = DictCopy(heap, zone_states)
    /\ frame' = [frame EXCEPT ![t].ret = NewId(heap)]
    /\ pc' = [pc EXCEPT ![t] = "release"]
    /\ UNCHANGED <<component_states, light_levels, zone_states, last_update, lock,
                   passed, committed, seen>>
    /\ UNCHANGED <<cmdVars, tailVars, srvVars>>

\* StateCache.get_lights()
get_lights_call(t) ==
    /\ pc[t] = "idle"
    /\ RoomForCall
    /\ frame' = [frame EXCEPT ![t] = [op |-> "get_lights", args |-> <<>>,
                                      ret |-> NoObj]]
    /\ pc' = [pc EXCEPT ![t] = "acquire"]
    /\ UNCHANGED <<heap, component_states, light_levels, zone_states, last_update,
                   lock, passed, committed, seen>>
    /\ UNCHANGED <<cmdVars, tailVars, srvVars>>

\* return dict(self.light_levels)
get_lights_body(t) ==
    /\ pc[t] = "body"
    /\ frame[t].op = "get_lights"
    /\ heap' = DictCopy(heap, light_levels)
    /\ frame' = [frame EXCEPT ![t].ret = NewId(heap)]
    /\ pc' = [pc EXCEPT ![t] = "release"]
    /\ UNCHANGED <<component_states, light_levels, zone_states, last_update, lock,
                   passed, committed, seen>>
    /\ UNCHANGED <<cmdVars, tailVars, srvVars>>

\* a caller of a getter changes the value it was handed: del ret[k]
mutate_returned(t) ==
    /\ pc[t] = "returned"
    /\ frame[t].op \in {"get_zone_state", "get_all_zone_states",
                        "get_components", "get_lights"}
    /\ \E k \in DOMAIN heap[frame[t].ret] :
           heap' = HeapSet(heap, frame[t].ret, DictDel(heap[frame[t].ret], k))
    /\ pc' = [pc EXCEPT ![t] = "mutated"]
    /\ UNCHANGED <<component_states, light_levels, zone_states, last_update, lock,
                   frame, passed, committed, seen>>
    /\ UNCHANGED <<cmdVars, tailVars, srvVars>>

\* a caller changes a map nested in the value it was handed: del ret[k][k2]
mutate_nested(t) ==
    /\ pc[t] = "returned"
    /\ frame[t].op \in {"get_all_zone_states", "get_components", "get_lights"}
    /\ \E k \in DOMAIN heap[frame[t].ret] :
           LET inner == heap[frame[t].ret][k]
           IN  \E k2 \in DOMAIN heap[inner] :
                   heap' = HeapSet(heap, inner, DictDel(heap[inner], k2))
    /\ pc' = [pc EXCEPT ![t] = "mutated"]
    /\ UNCHANGED <<component_states, light_levels, zone_states, last_update, lock,
                   frame, passed, committed, seen>>
    /\ UNCHANGED <<cmdVars, tailVars, srvVars>>

\* the thread drops the value it got and is ready for its next call
next_call(t) ==
    /\ pc[t] \in {"returned", "mutated"}
    /\ pc' = [pc EXCEPT ![t] = "idle"]
    /\ frame' = [frame EXCEPT ![t] = IdleFrame]
    /\ UNCHANGED <<heap, component_states, light_levels, zone_states, last_update,
                   lock, passed, committed, seen>>
    /\ UNCHANGED <<cmdVars, tailVars, srvVars>>

\* ------------------------------------------------------------------------
\* Construction: StateCache.__init__
\* ------------------------------------------------------------------------
InitCache ==
    /\ heap = <<EmptyDict, EmptyDict, EmptyDict>>
    /\ component_states = 1
    /\ light_levels = 2
    /\ zone_states = 3
    /\ last_update = 0
    /\ lock = NoThread

InitThreads ==
    /\ pc = [t \in Threads |-> "idle"]
    /\ frame = [t \in Threads |-> IdleFrame]
    /\ passed = [w \in Writers |-> <<>>]
    /\ committed = [w \in Writers |-> 0]
    /\ seen = [r \in Readers |-> [w \in Writers |-> 0]]

\* module level of savant_relay.py: configuration and the discovered port
SAVANT_HOST == "127.0.0.1"
FallbackPort == 45600
DiscoveredPort == 49152

NoRequest == [method |-> "", path |-> "", hasLength |-> FALSE, body |-> <<"none">>]
NoSocket == [created |-> FALSE, sendto |-> "none", closed |-> FALSE]

InitCommand ==
    /\ SAVANT_UIS_PORT \in {FallbackPort, DiscoveredPort}
    /\ request = NoRequest
    /\ response = 0
    /\ sock = NoSocket
    /\ udp = <<>>
    /\ udpBefore = 0
    /\ handled = 0

\* what `avahi-browse -r -t -p' did: check_output raised (the command is
\* missing or exited non-zero), or it printed lines.  Of a line the model keeps
\* whether it starts with `=', its protocol field, the number of `;'-separated
\* parts and the text of parts[8].
CommandFailed == [ok |-> FALSE, lines |-> <<>>]
Output(lines) == [ok |-> TRUE, lines |-> lines]
Record(resolved, proto, parts, port) ==
    [resolved |-> resolved, proto |-> proto, parts |-> parts, port |-> port]
DiscoveredLine == Record(TRUE, "IPv4", 10, <<"4", "9", "1", "5", "2">>)

\* WebSocketServer.__init__: no client; no connection has been made
ConnIds == 1..MaxConns
NoHandshake == [complete |-> FALSE, upgrade |-> "", key |-> ""]
NoConn == [worker |-> "none", open |-> FALSE, request |-> NoHandshake,
           sent101 |-> FALSE, outbox |-> <<>>]
NoCast == [n |-> 0, targets |-> {}, fails |-> {}, frame |-> <<>>]
NoTurn == [n |-> 0, conn |-> 0, kind |-> "none", opcode |-> -1, payload |-> <<>>,
           wire |-> <<>>, sendOk |-> TRUE]
InitWs ==
    /\ clients = <<>>
    /\ conn = [c \in ConnIds |-> NoConn]
    /\ wsEvents = 0
    /\ cast = NoCast
    /\ met = NoTurn

\* the frame codec at rest
NoFrame == [opcode |-> -1, data |-> <<>>]
IdleCodec ==
    /\ txFrame = NoFrame
    /\ wire = <<>>
    /\ rxFrame = NoFrame

\* a status file as the watcher finds it: whether ET.parse accepts it, and
\* the dict under its States key ({} when there is none)
Unparsable == [wellFormed |-> FALSE, states |-> <<>>]
NoLoad == [n |-> 0, name |-> <<"", "">>, content |-> Unparsable, phase |-> "none"]

\* the status-file watcher at rest: an empty directory under watch
NoPoll == <<"", "">>
WatcherIdle ==
    /\ setup = "watching"
    /\ polled = NoPoll
    /\ statusDir = <<>>
    /\ watcherPc = "watching"
    /\ globbed = {}
    /\ scanned = <<>>
    /\ events = <<>>
    /\ buf = <<>>
    /\ file_mtimes = <<>>
    /\ writes = 0
    /\ loaded = NoLoad
    /\ dirty = {}
    /\ parseFailed = FALSE

\* LUTRON_PERSISTENT = False: main() does not start the listener, and no
\* one-shot query has been made
NoQuery == [pc |-> "idle", sock |-> 0, levels |-> <<>>, n |-> 0]
ListenerDisabled ==
    /\ lutPc = "disabled"
    /\ socks = <<>>
    /\ lsock = 0
    /\ exc_tb = 0
    /\ waited = FALSE
    /\ attempts = 0
    /\ query = NoQuery
    /\ listener_map = EmptyDict

\* the Home Assistant entities as their constructors leave them
NoCommand == [command |-> "none", arguments |-> <<>>]
NoCall == [n |-> 0, method |-> "none", arguments |-> <<>>]
NewLight(is_dimmer) == [is_dimmer |-> is_dimmer, is_on |-> FALSE, brightness |-> 255]
NewPlayer(volume_control) ==
    [volume_control |-> volume_control, state |-> "idle", volume_level |-> <<>>,
     is_muted |-> <<>>]
EntitiesIdle ==
    /\ light = NewLight(TRUE)
    /\ player = NewPlayer(<<>>)
    /\ haSent = NoCommand
    /\ haIn = NoCall
\* the threads of the relay as the lock-level view sees them: the worker of
\* connection c is thread c, then the log tailer, the status-file watcher and
\* the HTTP handler
TailerThread == MaxConns + 1
WatcherThread == MaxConns + 2
HttpThread == MaxConns + 3
SyncThreads == ConnIds \cup {TailerThread, WatcherThread, HttpThread}
NoBroadcast == [todo |-> <<>>, dead |-> <<>>]
\* no thread is inside a lock or a send
SyncIdle ==
    /\ clients_lock = NoThread
    /\ tpc = [t \in SyncThreads |-> "idle"]
    /\ bc = NoBroadcast
    /\ sending = {}
    /\ raised = {}
    /\ removed = [c \in ConnIds |-> 0]
\* SavantClient.__init__: no listener task, no call made
NoTask == 0
StopIds == 1..MaxStops
NoStop == [pc |-> "idle", task |-> NoTask, begun_at |-> 0]
ClientIdle ==
    /\ ws_running = FALSE
    /\ ws_task = NoTask
    /\ tasks = <<>>
    /\ stops = [s \in StopIds |-> NoStop]
    /\ starts = 0
InitAux == WatcherIdle /\ ListenerDisabled /\ EntitiesIdle /\ SyncIdle /\ ClientIdle

\* main() has run to httpd.serve_forever() with the WebSocket server listening
\* and the configuration database readable
Running ==
    /\ mainPc = "serving"
    /\ listener = "listening"
    /\ dbUp = TRUE
InitServer == InitWs /\ IdleCodec /\ Running /\ InitAux

\* the light rows an installer may have configured (LightEntities JOIN Zones):
\* addresses is the comma-separated list, already split; an address is kept as
\* its characters
DbConfigs ==
    {<<[addresses |-> <<<<"1", "4">>>>, zone |-> "Den", name |-> "Lamp"]>>,
     <<[addresses |-> <<<<"1", "4">>, <<"1", "5">>>>, zone |-> "Den", name |-> "Floor Lamp"],
       [addresses |-> <<>>, zone |-> "Den", name |-> "Fan"]>>}

\* the threads of main() have been created and none has run yet
InitTailer ==
    /\ db \in DbConfigs
    /\ syslog = <<>>
    /\ tailerPc = "start"
    /\ f_pos = 0
    /\ f_start = 0
    /\ tailerSnap = NoObj
    /\ tailerKey = ""
    /\ hadEntry = {}
    /\ stored = NoObj
    /\ broadcasts = <<>>

\* ------------------------------------------------------------------------
\* SpecCache: N writers with distinct component names against M readers
\* ------------------------------------------------------------------------
WriterCalls == \E w \in Writers : \E m \in StateMaps :
                   update_component_call(w, WriterComponent(w), m)
WriterStores == \E w \in Writers : update_component_body(w)
ReaderCalls == \E r \in Readers : get_components_call(r)
ReaderCopies == \E r \in Readers : get_components_body(r)
Acquires == \E t \in Writers \cup Readers : acquire(t)
Stamps == \E t \in Writers \cup Readers : stamp(t)
Releases == \E t \in Writers \cup Readers : release(t)
NextCalls == \E t \in Writers \cup Readers : next_call(t)

InitCacheSpec ==
    /\ InitCache /\ InitThreads /\ InitCommand /\ InitTailer /\ InitServer
    /\ SAVANT_UIS_PORT = FallbackPort
    /\ avahi = CommandFailed
    /\ db = <<[addresses |-> <<<<"1", "4">>>>, zone |-> "Den", name |-> "Lamp"]>>
NextCache ==
    \/ WriterCalls
    \/ WriterStores
    \/ ReaderCalls
    \/ ReaderCopies
    \/ Acquires
    \/ Stamps
    \/ Releases
    \/ NextCalls
SpecCache == InitCacheSpec /\ [][NextCache]_vars

\* C1: with writers on pairwise distinct component names, a snapshot returned
\* by get_components holds every write that had returned when the snapshot
\* call began (that write or a later one of the same writer), and every entry
\* of the snapshot is the complete map some writer passed for that component.
Snapshot(r) == heap[frame[r].ret]
PassedBy(w, o) == \E i \in 1..Len(passed[w]) :
                     passed[w][i][1] = o /\ heap[o] = passed[w][i][2]
C1_NoLostNoPartialWrite ==
    \A r \in Readers :
        (pc[r] = "returned" /\ frame[r].op = "get_components") =>
            /\ \A w \in Writers :
                  seen[r][w] > 0 =>
                      /\ WriterComponent(w) \in DOMAIN Snapshot(r)
                      /\ \E i \in seen[r][w]..Len(passed[w]) :
                            Snapshot(r)[WriterComponent(w)] = passed[w][i][1]
            /\ \A c \in DOMAIN Snapshot(r) :
                  \E w \in Writers :
                      WriterComponent(w) = c /\ PassedBy(w, Snapshot(r)[c])

\* a reader holds a snapshot taken after every writer had committed a write
C1_Witness ==
    \E r \in Readers :
        /\ pc[r] = "returned"
        /\ frame[r].op = "get_components"
        /\ \A w \in Writers : seen[r][w] > 0
        /\ DOMAIN Snapshot(r) = {WriterComponent(w) : w \in Writers}

\* ------------------------------------------------------------------------
\* SpecCopy: one caller uses every StateCache method and changes what the
\* getters hand out
\* ------------------------------------------------------------------------
CopyComponents == {"Receiver"}
CopyZones == {"Den"}
CopyLightKeys == {"den_lamp"}
CopyLightData == {[address |-> <<"1", "4">>, zone |-> "Den", name |-> "Lamp",
                   level |-> 50, is_on |-> TRUE]}

CallerUpdatesComponent ==
    \E c \in CopyComponents : \E m \in StateMaps : update_component_call(Caller, c, m)
CallerUpdatesLight ==
    \E k \in CopyLightKeys : \E d \in CopyLightData : update_light_call(Caller, k, d)
CallerUpdatesZone ==
    \E z \in CopyZones : \E v \in {"ON", "OFF"} :
        update_zone_state_call(Caller, z, "power", v)
CallerGetsZone == \E z \in CopyZones : get_zone_state_call(Caller, z)
CallerGetsAllZones == get_all_zone_states_call(Caller)
CallerGetsComponents == get_components_call(Caller)
CallerGetsLights == get_lights_call(Caller)
CallerAcquires == acquire(Caller)
CallerStoresComponent == update_component_body(Caller)
CallerStoresLight == update_light_body(Caller)
CallerStoresZone == update_zone_state_body(Caller)
CallerReadsZone == get_zone_state_body(Caller)
CallerCopiesZones == get_all_zone_states_body(Caller)
CallerCopiesComponents == get_components_body(Caller)
CallerCopiesLights == get_lights_body(Caller)
CallerStamps == stamp(Caller)
CallerReleases == release(Caller)
CallerMutatesReturned == mutate_returned(Caller)
CallerMutatesNested == mutate_nested(Caller)
CallerNextCall == next_call(Caller)

NextCopy ==
    \/ CallerUpdatesComponent
    \/ CallerUpdatesLight
    \/ CallerUpdatesZone
    \/ CallerGetsZone
    \/ CallerGetsAllZones
    \/ CallerGetsComponents
    \/ CallerGetsLights
    \/ CallerAcquires
    \/ CallerStoresComponent
    \/ CallerStoresLight
    \/ CallerStoresZone
    \/ CallerReadsZone
    \/ CallerCopiesZones
    \/ CallerCopiesComponents
    \/ CallerCopiesLights
    \/ CallerStamps
    \/ CallerReleases
    \/ CallerMutatesReturned
    \/ CallerMutatesNested
    \/ CallerNextCall
SpecCopy == InitCacheSpec /\ [][NextCopy]_vars

\* what the cache holds, by value
CacheValue == <<Contents(heap, component_states), Contents(heap, light_levels),
                Contents(heap, zone_states)>>

\* C2: a caller that changes the value a getter returned (the value itself or
\* a map nested in it) never changes the contents of the cache.
C2_GettersReturnCopies ==
    [][(pc[Caller] = "returned" /\ pc'[Caller] = "mutated")
           => CacheValue' = CacheValue]_vars

\* ------------------------------------------------------------------------
\* RestFacade: POST /command  (SavantRequestHandler.do_POST, handle_command)
\* ------------------------------------------------------------------------
\* JSON values as json.loads delivers them
JString(text) == <<"string", text>>
JNumber(n) == <<"number", n>>
JNull == <<"null">>

\* Python truth value of a JSON value
Truthy(v) ==
    CASE v[1] = "string" -> v[2] # ""
      [] v[1] = "number" -> v[2] # 0
      [] OTHER -> FALSE

\* the text str.format / the % operator substitute for a JSON value
Format(v) ==
    CASE v[1] = "string" -> v[2]
      [] v[1] = "number" -> ToString(v[2])
      [] OTHER -> "None"

\* cmd.get(key, default)
DictGet(d, k, default) == IF k \in DOMAIN d THEN d[k] ELSE default

RequiredFields == {"zone", "component", "logicalComponent", "service", "command"}

\* a faulty presence check that forgets `service'
AllRequiredButService(cmd) ==
    \A f \in RequiredFields \ {"service"} : Truthy(DictGet(cmd, f, JString("")))

\* all([zone, component, logical, service, command])
AllRequired(cmd) ==
    \A f \in RequiredFields : Truthy(DictGet(cmd, f, JString("")))

\* for name, value in arguments.items(): args_xml += '<arg name=.. value=../>'
RECURSIVE ArgsXml(_)
ArgsXml(items) ==
    IF items = <<>> THEN ""
    ELSE "<arg name=\"" \o items[1][1] \o "\" value=\"" \o Format(items[1][2])
             \o "\"/>" \o ArgsXml(Tail(items))

\* SOAP_TEMPLATE.format(...), the envelope's body element
SoapEnvelope(zone, component, logical, service, variant, command, args) ==
    "<SOAP-ENV:Envelope><SOAP-ENV:Body><ctl:serviceEventRequest>"
    \o "<zoneString>" \o zone \o "</zoneString>"
    \o "<componentString>" \o component \o "</componentString>"
    \o "<logicalComponentString>" \o logical \o "</logicalComponentString>"
    \o "<serviceString>" \o service \o "</serviceString>"
    \o "<serviceVariantIDString>" \o variant \o "</serviceVariantIDString>"
    \o "<commandString>" \o command \o "</commandString>"
    \o args
    \o "</ctl:serviceEventRequest></SOAP-ENV:Body></SOAP-ENV:Envelope>"

\* the envelope handle_command renders for a body that is a complete object
Render(cmd) ==
    SoapEnvelope(Format(cmd["zone"]), Format(cmd["component"]),
                 Format(cmd["logicalComponent"]), Format(cmd["service"]),
                 Format(DictGet(cmd, "serviceVariantID", JString("1"))),
                 Format(cmd["command"]),
                 ArgsXml(DictGet(cmd, "arguments", <<"object", <<>>>>)[2]))

\* a faulty handler that answers 200 whatever sendto did
StatusAfterSendAlwaysOk(sendOk) == 200

\* sendto returned: 200; sendto raised: 502
StatusAfterSend(sendOk) == IF sendOk THEN 200 ELSE 502

\* The outcome of handle_command for one request: the status answered, the
\* datagrams sent and the socket's life.  sockOk / sendOk are what the
\* operating system answers to socket() and sendto().
\*   body[1] = "garbage": json.loads raises
\*   body[1] = "array"  : valid JSON that is not an object (cmd.get raises)
\*   body[1] = "object" : body[2] is the dict
HandleCommand(req, port, sockOk, sendOk) ==
    IF ~req.hasLength
    THEN [status |-> 500, out |-> <<>>, sock |-> NoSocket]
    ELSE IF req.body[1] = "garbage"
    THEN [status |-> 400, out |-> <<>>, sock |-> NoSocket]
    ELSE IF req.body[1] # "object"
    THEN [status |-> 500, out |-> <<>>, sock |-> NoSocket]
    ELSE LET cmd == req.body[2]
             arguments == DictGet(cmd, "arguments", <<"object", <<>>>>)
         IN  IF ~AllRequired(cmd)
             THEN [status |-> 400, out |-> <<>>, sock |-> NoSocket]
             ELSE IF arguments[1] # "object"
             THEN [status |-> 500, out |-> <<>>, sock |-> NoSocket]
             ELSE IF ~sockOk
             THEN [status |-> 500, out |-> <<>>, sock |-> NoSocket]
             ELSE [status |-> StatusAfterSend(sendOk),
                   out |-> IF sendOk
                           THEN <<[host |-> SAVANT_HOST, port |-> port,
                                   data |-> Render(cmd)]>>
                           ELSE <<>>,
                   sock |-> [created |-> TRUE,
                             sendto |-> IF sendOk THEN "ok" ELSE "error",
                             closed |-> TRUE]]

\* the request bodies a client may post
FieldText(f) ==
    CASE f = "zone" -> "Den"
      [] f = "component" -> "Receiver"
      [] f = "logicalComponent" -> "Main"
      [] f = "service" -> "SVC_AV"
      [] f = "command" -> "SetVolume"
FieldValues(f) ==
    IF f = "zone"
    THEN {JString(""), JString(FieldText(f)), JNumber(7), JNull}
    ELSE {JString(""), JString(FieldText(f))}
Absent == <<"absent">>
VariantValues == {JString("2")}
ArgumentsValues == {<<"object", <<>>>>,
                    <<"object", <<<<"VolumeValue", JString("45")>>>>>>,
                    <<"object", <<<<"Address1", JNumber(14)>>,
                                  <<"DimmerLevel", JNumber(0)>>>>>>,
                    <<"array">>}

\* the JSON object holding the fields that were given a value
ObjectOf(choice) ==
    [f \in {g \in DOMAIN choice : choice[g] # Absent} |-> choice[f]]

\* objects with any of the required fields, and with optional ones when complete
Objects ==
    {ObjectOf([zone |-> z, component |-> c, logicalComponent |-> l,
               service |-> s, command |-> k,
               serviceVariantID |-> Absent, arguments |-> Absent]) :
         z \in FieldValues("zone") \cup {Absent},
         c \in FieldValues("component") \cup {Absent},
         l \in FieldValues("logicalComponent") \cup {Absent},
         s \in FieldValues("service") \cup {Absent},
         k \in FieldValues("command") \cup {Absent}}
    \cup
    {ObjectOf([zone |-> z, component |-> JString(FieldText("component")),
               logicalComponent |-> JString(FieldText("logicalComponent")),
               service |-> JString(FieldText("service")),
               command |-> JString(FieldText("command")),
               serviceVariantID |-> v, arguments |-> a]) :
         z \in {JString(FieldText("zone")), JNumber(7)},
         v \in VariantValues \cup {Absent},
         a \in ArgumentsValues \cup {Absent}}
Bodies == {<<"garbage">>, <<"array">>} \cup {<<"object", cmd>> : cmd \in Objects}

\* BaseHTTPRequestHandler dispatches the POST; the handler answers it
do_POST(path, hasLength, body, sockOk, sendOk) ==
    /\ request = NoRequest
    /\ handled < MaxRequests
    /\ LET req == [method |-> "POST", path |-> path, hasLength |-> hasLength,
                   body |-> body]
           res == HandleCommand(req, SAVANT_UIS_PORT, sockOk, sendOk)
       IN  /\ request' = req
           /\ udpBefore' = Len(udp)
           /\ IF path = "/command"
              THEN /\ response' = res.status
                   /\ sock' = res.sock
                   /\ udp' = udp \o res.out
              ELSE /\ response' = 404
                   /\ sock' = NoSocket
                   /\ udp' = udp
    /\ handled' = handled + 1
    /\ UNCHANGED SAVANT_UIS_PORT
    /\ UNCHANGED <<cacheVars, threadVars, tailVars, srvVars>>

\* the handler has answered; the server is ready for the next request
finish ==
    /\ request # NoRequest
    /\ request' = NoRequest
    /\ response' = 0
    /\ sock' = NoSocket
    /\ udpBefore' = Len(udp)
    /\ UNCHANGED <<SAVANT_UIS_PORT, udp, handled>>
    /\ UNCHANGED <<cacheVars, threadVars, tailVars, srvVars>>

PostRequest ==
    \E path \in {"/command", "/zones"} : \E hasLength \in BOOLEAN :
    \E body \in Bodies : \E sockOk \in BOOLEAN : \E sendOk \in BOOLEAN :
        do_POST(path, hasLength, body, sockOk, sendOk)

InitCommandSpec ==
    /\ InitCache /\ InitThreads /\ InitCommand /\ InitTailer /\ InitServer
    /\ avahi = IF SAVANT_UIS_PORT = FallbackPort THEN CommandFailed
               ELSE Output(<<DiscoveredLine>>)
    /\ db = <<[addresses |-> <<<<"1", "4">>>>, zone |-> "Den", name |-> "Lamp"]>>
RequestDone == finish
NextCommand ==
    \/ PostRequest
    \/ RequestDone
SpecCommand == InitCommandSpec /\ [][NextCommand]_vars

\* the request handled last was a POST /command whose body was read and is
\* a JSON object
ObjectPosted ==
    /\ request.method = "POST"
    /\ request.path = "/command"
    /\ request.hasLength
    /\ request.body[1] = "object"
Posted == request.body[2]
LacksRequired(cmd) ==
    \E f \in RequiredFields : f \notin DOMAIN cmd \/ ~Truthy(cmd[f])
SentForRequest == SubSeq(udp, udpBefore + 1, Len(udp))

\* C3: a POST /command whose JSON object lacks one of zone, component,
\* logicalComponent, service, command, or holds an empty value for it, is
\* answered 400 and no datagram is sent for it.
C3_MissingFieldIs400NoDatagram ==
    (ObjectPosted /\ LacksRequired(Posted)) =>
        (response = 400 /\ SentForRequest = <<>> /\ sock.sendto = "none")

\* a body with every field but `service' was answered 400
C3_Witness ==
    /\ ObjectPosted
    /\ DOMAIN Posted \cap RequiredFields = RequiredFields \ {"service"}
    /\ \A f \in RequiredFields \ {"service"} : Truthy(Posted[f])
    /\ response = 400
    /\ SentForRequest = <<>>

\* C4: for a POST /command with all required fields, the answer is 200
\* exactly when one datagram with the rendered envelope was sent without a
\* socket error, 502 exactly when the send raised; at most one datagram is
\* sent per request.
C4_StatusFollowsSend ==
    (ObjectPosted /\ ~LacksRequired(Posted)) =>
        /\ response = 200 <=>
               (/\ sock.sendto = "ok"
                /\ SentForRequest = <<[host |-> SAVANT_HOST, port |-> SAVANT_UIS_PORT,
                                       data |-> Render(Posted)]>>)
        /\ response = 502 <=> sock.sendto = "error"
        /\ response = 502 => SentForRequest = <<>>
        /\ Len(SentForRequest) <= 1
        /\ sock.created => sock.closed

\* a complete request with two arguments was sent and answered 200
C4_Witness ==
    /\ ObjectPosted
    /\ ~LacksRequired(Posted)
    /\ "arguments" \in DOMAIN Posted
    /\ Posted["arguments"][1] = "object"
    /\ Len(Posted["arguments"][2]) = 2
    /\ response = 200
    /\ Len(SentForRequest) = 1

\* the status the interface table promises for a POST /command
PromisedStatus ==
    IF request.body[1] = "garbage" THEN 400
    ELSE IF request.body[1] # "object" THEN 400
    ELSE IF LacksRequired(Posted) THEN 400
    ELSE IF sock.sendto = "error" THEN 502
    ELSE 200

\* C5: every POST /command is answered 400 (body not valid JSON, or required
\* fields missing), 502 (send failure) or 200 (otherwise), and nothing else.
C5_Only200_400_502 ==
    (request.method = "POST" /\ request.path = "/command" /\ request.hasLength) =>
        (response \in {200, 400, 502} /\ response = PromisedStatus)

\* ------------------------------------------------------------------------
\* SyslogEventTailer: syslog_watcher_thread, and the handler that fills the
\* light cache (GET /lights/status)
\* ------------------------------------------------------------------------
LUTRON_PERSISTENT == FALSE

\* A log line, as event_pattern sees it: either no match, or the groups zone
\* and command and the argument block.  The block is the literal (null) or a
\* list of `key = value;' pairs.  Values are kept as the characters the line
\* holds.
NullArgs == [null |-> TRUE, pairs |-> <<>>]
Args(pairs) == [null |-> FALSE, pairs |-> pairs]
Unmatched == [event |-> FALSE]
Event(zone, command, args) ==
    [event |-> TRUE, zone |-> zone, command |-> command, args |-> args]

\* args[k.strip()] = v.strip() for every pair, a later pair replacing an
\* earlier one with the same key
RECURSIVE ParsePairs(_, _)
ParsePairs(pairs, d) ==
    IF pairs = <<>> THEN d
    ELSE ParsePairs(Tail(pairs), DictSet(d, pairs[1][1], pairs[1][2]))
ParseArgs(args) == IF args.null THEN EmptyDict ELSE ParsePairs(args.pairs, EmptyDict)

Digits == {"0", "1", "2", "3", "4", "5", "6", "7", "8", "9"}
DigitValue(c) ==
    CASE c = "0" -> 0 [] c = "1" -> 1 [] c = "2" -> 2 [] c = "3" -> 3 [] c = "4" -> 4
      [] c = "5" -> 5 [] c = "6" -> 6 [] c = "7" -> 7 [] c = "8" -> 8 [] c = "9" -> 9

Unsigned(t) == IF t # <<>> /\ t[1] \in {"-", "+"} THEN Tail(t) ELSE t
IsDigits(t) == t # <<>> /\ \A i \in 1..Len(t) : t[i] \in Digits

RECURSIVE NatOf(_)
NatOf(t) == IF t = <<>> THEN 0
            ELSE NatOf(SubSeq(t, 1, Len(t) - 1)) * 10 + DigitValue(t[Len(t)])

\* int(text) succeeds: an optional sign and one or more digits
IsIntText(t) == IsDigits(Unsigned(t))
\* int(text)
IntOf(t) == IF t[1] = "-" THEN 0 - NatOf(Unsigned(t)) ELSE NatOf(Unsigned(t))

\* float(text) succeeds: an optional sign, digits with at most one point, and
\* a digit on one side of it at least (exponents, inf and nan are not written
\* by the texts of this model)
DotsOf(t) == {i \in 1..Len(t) : t[i] = "."}
IsFloatText(t) ==
    LET u == Unsigned(t)
    IN  /\ \A i \in 1..Len(u) : u[i] \in Digits \cup {"."}
        /\ Cardinality(DotsOf(u)) <= 1
        /\ \E i \in 1..Len(u) : u[i] \in Digits

\* float(text), in hundredths (levels are kept in hundredths of a percent);
\* the texts of this model have at most two digits behind the point
Hundredths(frac) ==
    IF frac = <<>> THEN 0
    ELSE IF Len(frac) = 1 THEN DigitValue(frac[1]) * 10
    ELSE DigitValue(frac[1]) * 10 + DigitValue(frac[2])
FloatOf(t) ==
    LET u == Unsigned(t)
        dot == IF DotsOf(u) = {} THEN Len(u) + 1 ELSE CHOOSE i \in DotsOf(u) : TRUE
        whole == NatOf(SubSeq(u, 1, dot - 1))
        frac == SubSeq(u, dot + 1, Len(u))
        magnitude == whole * 100 + Hundredths(frac)
    IN  IF t[1] = "-" THEN 0 - magnitude ELSE magnitude

\* a faulty on/off rule that takes level 0 for on
IsOnFromZero(level) == level >= 0

\* 'is_on': level > 0
IsOn(level) == level > 0

\* a faulty test that takes any command carrying a VolumeValue for SetVolume
IsVolumeEventAnyCommand(command, args) == "VolumeValue" \in DOMAIN args

\* command == 'SetVolume' and 'VolumeValue' in args
IsVolumeEvent(command, args) == command = "SetVolume" /\ "VolumeValue" \in DOMAIN args

\* a faulty table that writes ON for every power and mute command
SwitchValueAlwaysOn(command) == "ON"

\* the value the tailer writes for PowerOn / PowerOff / MuteOn / MuteOff
SwitchValue(command) == IF command \in {"PowerOn", "MuteOn"} THEN "ON" ELSE "OFF"
SwitchKey(command) == IF command \in {"PowerOn", "PowerOff"} THEN "power" ELSE "mute"

\* What the if / elif chain of the tailer decides for a line:
\*   <<"zone", zone, key, value>>   update_zone_state and a zone_state broadcast
\*   <<"light", address, level>>    look the address up in get_lights()
\*   <<"none">>                     nothing (no match, other command, ValueError)
Decide(line) ==
    IF ~line.event THEN <<"none">>
    ELSE LET args == ParseArgs(line.args)
             command == line.command
         IN  IF IsVolumeEvent(command, args)
             THEN IF IsIntText(args["VolumeValue"])
                  THEN <<"zone", line.zone, "volume", IntOf(args["VolumeValue"])>>
                  ELSE <<"none">>
             ELSE IF command \in {"PowerOn", "PowerOff", "MuteOn", "MuteOff"}
             THEN <<"zone", line.zone, SwitchKey(command), SwitchValue(command)>>
             ELSE IF command = "DimmerSet" /\ "DimmerLevel" \in DOMAIN args
             THEN IF /\ IsFloatText(args["DimmerLevel"])
                     /\ DictGet(args, "Address1", <<>>) # <<>>
                  THEN <<"light", args["Address1"], FloatOf(args["DimmerLevel"])>>
                  ELSE <<"none">>
             ELSE <<"none">>

\* a faulty message builder that labels zone events light_state
ZoneMessageAsLight(zone, key, value, now) ==
    [type |-> "light_state", data |-> DictSet([zone |-> zone], key, value),
     timestamp |-> now]

\* a faulty message builder that names the event after the key that changed
ZoneMessageNamedByKey(zone, key, value, now) ==
    [type |-> key, data |-> DictSet([zone |-> zone], key, value), timestamp |-> now]

\* broadcast_state_change('zone_state', {'zone': zone, key: value})
ZoneMessage(zone, key, value, now) ==
    [type |-> "zone_state", data |-> DictSet([zone |-> zone], key, value),
     timestamp |-> now]

\* broadcast_state_change('light_state', {'address':.., 'level':.., 'is_on':..})
LightMessage(addr, level, now) ==
    [type |-> "light_state",
     data |-> [address |-> addr, level |-> level, is_on |-> IsOn(level)],
     timestamp |-> now]

\* the data the tailer writes for a light found in its snapshot
LightData(addr, data, level) ==
    [address |-> addr, zone |-> DictGet(data, "zone", ""),
     name |-> DictGet(data, "name", ""), level |-> level, is_on |-> IsOn(level)]

\* a search that takes every entry for a match
KeysAnyAddress(h, lights, addr) == DOMAIN h[lights]

\* the keys of a map returned by get_lights whose entry has the address
KeysWithAddress(h, lights, addr) ==
    {k \in DOMAIN h[lights] : DictGet(h[h[lights][k]], "address", <<>>) = addr}

\* the lines the controller may write
VolumeTexts == {<<"4", "5">>, <<"4", ".", "5">>}
LevelTexts == {<<"0">>, <<"5", "0">>, <<"x">>}
LogLines ==
    {Unmatched}
    \cup {Event("Den", c, NullArgs) : c \in {"PowerOn", "PowerOff", "MuteOn", "MuteOff"}}
    \cup {Event("Kitchen", "PowerOn", NullArgs), Event("Den", "SetVolume", NullArgs)}
    \cup {Event("Den", "SetVolume", Args(<<<<"VolumeValue", v>>>>)) : v \in VolumeTexts}
    \cup {Event("Den", "Play", Args(<<<<"VolumeValue", <<"4", "5">>>>>>)),
          Event("Den", "DimmerSet", Args(<<<<"DimmerLevel", <<"5", "0">>>>>>)),
          Event("Den", "DimmerSet", Args(<<<<"Address1", <<"9", "9">>>>,
                                           <<"DimmerLevel", <<"5", "0">>>>>>))}
    \cup {Event("Den", "DimmerSet", Args(<<<<"Address1", <<"1", "4">>>>,
                                           <<"DimmerLevel", l>>>>)) :
              l \in LevelTexts}

\* the controller appends a line to the log
syslog_append(line) ==
    /\ Len(syslog) < MaxLog
    /\ syslog' = Append(syslog, line)
    /\ UNCHANGED <<db, tailerPc, f_pos, f_start, tailerSnap, tailerKey, hadEntry, stored,
                   broadcasts>>
    /\ UNCHANGED <<cacheVars, threadVars, cmdVars, srvVars>>

\* a tailer that reads the log from its first line
SeekStart(log) == 0

\* f.seek(0, 2): the position after the last line the file has
SeekEnd(log) == Len(log)

\* f = open(syslog_path, 'r'); f.seek(0, 2); f_start is a history variable,
\* the number of lines the log had when it was opened
tailer_open ==
    /\ tailerPc = "start"
    /\ tailerPc' = "reading"
    /\ f_pos' = SeekEnd(syslog)
    /\ f_start' = Len(syslog)
    /\ UNCHANGED <<db, syslog, tailerSnap, tailerKey, hadEntry, stored, broadcasts>>
    /\ UNCHANGED <<cacheVars, threadVars, cmdVars, srvVars>>

\* an exception leaves the while loop: the handler at the end of the function
\* prints it and the thread function returns
tailer_error ==
    /\ tailerPc \in {"start", "reading"}
    /\ tailerPc' = "terminated"
    /\ UNCHANGED <<db, syslog, f_pos, f_start, tailerSnap, tailerKey, hadEntry, stored,
                   broadcasts>>
    /\ UNCHANGED <<cacheVars, threadVars, cmdVars, srvVars>>

\* line = f.readline(), the match, the argument parsing and the choice of the
\* branch; for DimmerSet also get_lights() and the search for the address
tailer_readline ==
    /\ tailerPc = "reading"
    /\ f_pos < Len(syslog)
    /\ f_pos' = f_pos + 1
    /\ LET todo == Decide(syslog[f_pos + 1])
       IN  CASE todo[1] = "zone" ->
                   /\ tailerPc' = "update"
                   /\ UNCHANGED <<heap, tailerSnap, tailerKey, hadEntry>>
             [] todo[1] = "light" ->
                   /\ LockFree(lock)
                   /\ heap' = DictCopy(heap, light_levels)
                   /\ tailerSnap' = NewId(heap)
                   /\ IF KeysWithAddress(heap', NewId(heap), todo[2]) = {}
                      THEN /\ tailerPc' = "reading"
                           /\ UNCHANGED <<tailerKey, hadEntry>>
                      ELSE /\ tailerPc' = "update"
                           /\ tailerKey' \in KeysWithAddress(heap', NewId(heap), todo[2])
                           /\ hadEntry' = hadEntry \cup {f_pos + 1}
             [] OTHER ->
                   /\ tailerPc' = "reading"
                   /\ UNCHANGED <<heap, tailerSnap, tailerKey, hadEntry>>
    /\ UNCHANGED <<component_states, light_levels, zone_states, last_update, lock>>
    /\ UNCHANGED <<db, syslog, f_start, stored, broadcasts>>
    /\ UNCHANGED <<threadVars, cmdVars, srvVars>>

\* STATE_CACHE.update_zone_state(...) or STATE_CACHE.update_light(...)
tailer_update ==
    /\ tailerPc = "update"
    /\ LockFree(lock)
    /\ LET todo == Decide(syslog[f_pos])
       IN  IF todo[1] = "zone"
           THEN /\ heap' = StoreZoneState(heap, zone_states, todo[2], todo[3], todo[4])
                /\ UNCHANGED stored
           ELSE LET data == heap[heap[tailerSnap][tailerKey]]
                IN  /\ heap' = StoreLight(Alloc(heap, LightData(todo[2], data, todo[3])),
                                          light_levels, tailerKey, NewId(heap))
                    /\ stored' = NewId(heap)
    /\ \E now \in Times : last_update' = now
    /\ tailerPc' = "broadcast"
    /\ UNCHANGED <<component_states, light_levels, zone_states, lock>>
    /\ UNCHANGED <<db, syslog, f_pos, f_start, tailerSnap, tailerKey, hadEntry,
                   broadcasts>>
    /\ UNCHANGED <<threadVars, cmdVars, srvVars>>

\* WebSocketServer.broadcast as its caller sees it: every client of the list
\* whose send works has the item as its next message, every other one is
\* closed
Deliver(cs, list, fails, item) ==
    [c \in DOMAIN cs |->
        IF c \in fails THEN [cs[c] EXCEPT !.open = FALSE]
        ELSE IF \E i \in 1..Len(list) : list[i] = c
        THEN [cs[c] EXCEPT !.outbox = Append(@, item)]
        ELSE cs[c]]

\* broadcast_state_change(...): WS_SERVER is set before the thread starts;
\* fails is the set of clients whose send raises
tailer_broadcast ==
    /\ tailerPc = "broadcast"
    /\ LET todo == Decide(syslog[f_pos])
       IN  \E now \in Times :
           \E fails \in SUBSET {clients[i] : i \in 1..Len(clients)} :
           LET item == [line |-> f_pos,
                        message |-> IF todo[1] = "zone"
                                    THEN ZoneMessage(todo[2], todo[3], todo[4], now)
                                    ELSE LightMessage(todo[2], todo[3], now)]
           IN  /\ broadcasts' = Append(broadcasts, item)
               /\ conn' = Deliver(conn, clients, fails, item)
               /\ clients' = SelectSeq(clients, LAMBDA c : c \notin fails)
    /\ tailerPc' = "reading"
    /\ UNCHANGED <<db, syslog, f_pos, f_start, tailerSnap, tailerKey, hadEntry, stored>>
    /\ UNCHANGED <<wsEvents, cast, met>>
    /\ UNCHANGED <<cacheVars, threadVars, cmdVars, frameVars, bootVars, auxVars>>

\* key = ("%s_%s" % (zone, name)).replace(' ', '_').lower(), on the names of
\* DbConfigs
KeyText(text) ==
    CASE text = "Den" -> "den"
      [] text = "Lamp" -> "lamp"
      [] text = "Floor Lamp" -> "floor_lamp"
      [] text = "Fan" -> "fan"
LightKey(zone, name) == KeyText(zone) \o "_" \o KeyText(name)

\* address_map[addr] = {'zone': zone, 'name': name} for every row with addresses
RECURSIVE AddressMap(_, _)
AddressMap(rows, m) ==
    IF rows = <<>> THEN m
    ELSE AddressMap(Tail(rows),
                    IF rows[1].addresses = <<>> THEN m
                    ELSE DictSet(m, rows[1].addresses[1],
                                 [zone |-> rows[1].zone, name |-> rows[1].name]))

\* the levels the lighting controller may report (hundredths of a percent)
Levels == {0, 7500}

\* for addr, info in address_map.items(): ... STATE_CACHE.update_light(key, data)
RECURSIVE StoreStatus(_, _, _, _)
StoreStatus(h, ll, address_map, levels) ==
    IF DOMAIN address_map = {} THEN h
    ELSE LET addr == CHOOSE a \in DOMAIN address_map : TRUE
             info == address_map[addr]
             level == DictGet(levels, addr, 0)
             data == [address |-> addr, zone |-> info.zone, name |-> info.name,
                      level |-> level, is_on |-> IsOn(level)]
         IN  StoreStatus(StoreLight(Alloc(h, data), ll,
                                    LightKey(info.zone, info.name), NewId(h)),
                         ll, DictDel(address_map, addr), levels)

\* GET /lights/status (handle_lights_status): dbOk is whether the database
\* could be read, levels what query_lutron_levels returned
handle_lights_status(dbOk, levels) ==
    /\ request = NoRequest
    /\ handled < MaxRequests
    /\ LockFree(lock)
    /\ request' = [method |-> "GET", path |-> "/lights/status", hasLength |-> FALSE,
                   body |-> <<"none">>]
    /\ handled' = handled + 1
    /\ IF LUTRON_PERSISTENT /\ DOMAIN heap[light_levels] # {}
       THEN /\ heap' = DictCopy(heap, light_levels)
            /\ response' = 200
            /\ UNCHANGED last_update
       ELSE IF ~dbOk
       THEN /\ response' = 500
            /\ UNCHANGED <<heap, last_update>>
       ELSE /\ heap' = StoreStatus(heap, light_levels, AddressMap(db, EmptyDict), levels)
            /\ IF DOMAIN AddressMap(db, EmptyDict) = {}
               THEN UNCHANGED last_update
               ELSE \E now \in Times : last_update' = now
            /\ response' = 200
    /\ UNCHANGED <<component_states, light_levels, zone_states, lock>>
    /\ UNCHANGED <<SAVANT_UIS_PORT, sock, udp, udpBefore>>
    /\ UNCHANGED <<threadVars, tailVars, srvVars>>

ControllerLogs == \E line \in LogLines : syslog_append(line)
TailerOpens == tailer_open
TailerFails == tailer_error
TailerReads == tailer_readline
TailerUpdates == tailer_update
TailerBroadcasts == tailer_broadcast
LightsStatusRequest ==
    \E dbOk \in BOOLEAN :
    \E levels \in UNION {[S -> Levels] : S \in SUBSET (DOMAIN AddressMap(db, EmptyDict))} :
        handle_lights_status(dbOk, levels)

\* n clients have connected and completed the handshake; nothing has been
\* sent to them yet
Connected(n) ==
    /\ clients = [i \in 1..n |-> i]
    /\ conn = [c \in ConnIds |->
                 IF c <= n
                 THEN [NoConn EXCEPT !.worker = "loop", !.open = TRUE, !.sent101 = TRUE,
                                     !.request = [complete |-> TRUE, upgrade |-> "WebSocket",
                                                  key |-> "dGhl"]]
                 ELSE NoConn]
    /\ wsEvents = 0
    /\ cast = NoCast
    /\ met = NoTurn
InitTailerSpec ==
    /\ InitCache /\ InitThreads /\ InitCommand /\ InitTailer
    /\ \E n \in {0, MaxConns} : Connected(n)
    /\ IdleCodec /\ Running /\ InitAux
    /\ SAVANT_UIS_PORT = FallbackPort
    /\ avahi = CommandFailed
    /\ Len(db) = 2
NextTailer ==
    \/ ControllerLogs
    \/ TailerOpens
    \/ TailerFails
    \/ TailerReads
    \/ TailerUpdates
    \/ TailerBroadcasts
    \/ LightsStatusRequest
    \/ RequestDone
SpecTailer == InitTailerSpec /\ [][NextTailer]_vars

\* ---- what the tailer has done with the lines of the log ----
Max(S) == CHOOSE x \in S : \A y \in S : y <= x
\* the lines read so far (those present at the seek are never read)
ReadLines == (f_start + 1)..f_pos
\* the lines whose cache update, if any, has been made
AppliedLines == IF tailerPc = "update" THEN (f_start + 1)..(f_pos - 1) ELSE ReadLines
\* the lines whose handling is complete
DoneLines == IF tailerPc \in {"update", "broadcast"}
             THEN (f_start + 1)..(f_pos - 1) ELSE ReadLines
MessagesOf(i) == SelectSeq(broadcasts, LAMBDA b : b.line = i)
ArgsOf(i) == ParseArgs(syslog[i].args)
ZoneDict(zone) == IF zone \in DOMAIN heap[zone_states]
                  THEN heap[heap[zone_states][zone]] ELSE EmptyDict
LightDict(h, key) == h[h[light_levels][key]]
LogZones == {"Den", "Kitchen"}

IsVolumeLine(i) ==
    /\ syslog[i].event
    /\ syslog[i].command = "SetVolume"
    /\ "VolumeValue" \in DOMAIN ArgsOf(i)
HasIntegerVolume(i) == IsVolumeLine(i) /\ IsIntText(ArgsOf(i)["VolumeValue"])
VolumeLines(zone, lines) == {i \in lines : HasIntegerVolume(i) /\ syslog[i].zone = zone}

\* C6 as stated: every line read with command SetVolume and a VolumeValue
\* argument v sets the zone's volume to v and yields exactly one zone_state
\* broadcast with that zone and volume.
C6_EveryVolumeValueBroadcast ==
    \A i \in DoneLines :
        IsVolumeLine(i) =>
            /\ Len(MessagesOf(i)) = 1
            /\ MessagesOf(i)[1].message.type = "zone_state"

\* C6 as amended: a SetVolume line whose VolumeValue is an integer literal v
\* sets the zone's volume to v and yields exactly one zone_state broadcast
\* carrying that zone and v; a VolumeValue that is not an integer literal
\* changes nothing and yields no broadcast.
C6_IntegerVolumeStoredAndBroadcast ==
    /\ \A i \in DoneLines :
          IsVolumeLine(i) =>
              IF HasIntegerVolume(i)
              THEN /\ Len(MessagesOf(i)) = 1
                   /\ MessagesOf(i)[1].message.type = "zone_state"
                   /\ MessagesOf(i)[1].message.data =
                          [zone |-> syslog[i].zone,
                           volume |-> IntOf(ArgsOf(i)["VolumeValue"])]
              ELSE MessagesOf(i) = <<>>
    /\ \A zone \in LogZones :
          IF VolumeLines(zone, AppliedLines) = {}
          THEN "volume" \notin DOMAIN ZoneDict(zone)
          ELSE /\ "volume" \in DOMAIN ZoneDict(zone)
               /\ ZoneDict(zone)["volume"] =
                      IntOf(ArgsOf(Max(VolumeLines(zone, AppliedLines)))["VolumeValue"])

\* the line `SetVolume ... VolumeValue = 45' has been handled
C6_Witness ==
    \E i \in DoneLines :
        /\ HasIntegerVolume(i)
        /\ IntOf(ArgsOf(i)["VolumeValue"]) = 45
        /\ ZoneDict(syslog[i].zone)["volume"] = 45
        /\ Len(MessagesOf(i)) = 1

SwitchCommands(key) == IF key = "power" THEN {"PowerOn", "PowerOff"}
                       ELSE {"MuteOn", "MuteOff"}
IsSwitchLine(i, key) == syslog[i].event /\ syslog[i].command \in SwitchCommands(key)
SwitchLines(zone, key, lines) ==
    {i \in lines : IsSwitchLine(i, key) /\ syslog[i].zone = zone}
Expected(i) == IF syslog[i].command \in {"PowerOn", "MuteOn"} THEN "ON" ELSE "OFF"

\* C7: every line read with command PowerOn, PowerOff, MuteOn or MuteOff
\* yields exactly one zone_state broadcast with the zone and ON / OFF, and the
\* cached power and mute of a zone are those of the last such line handled
\* for that zone.
C7_PowerMuteFollowLastEvent ==
    /\ \A i \in DoneLines : \A key \in {"power", "mute"} :
          IsSwitchLine(i, key) =>
              /\ Len(MessagesOf(i)) = 1
              /\ MessagesOf(i)[1].message.type = "zone_state"
              /\ MessagesOf(i)[1].message.data =
                     DictSet([zone |-> syslog[i].zone], key, Expected(i))
    /\ \A zone \in LogZones : \A key \in {"power", "mute"} :
          IF SwitchLines(zone, key, AppliedLines) = {}
          THEN key \notin DOMAIN ZoneDict(zone)
          ELSE /\ key \in DOMAIN ZoneDict(zone)
               /\ ZoneDict(zone)[key] = Expected(Max(SwitchLines(zone, key, AppliedLines)))

\* PowerOn and then PowerOff were handled for a zone: its power is OFF
C7_Witness ==
    \E i, j \in DoneLines :
        /\ i < j
        /\ syslog[i].event /\ syslog[i].command = "PowerOn"
        /\ syslog[j].event /\ syslog[j].command = "PowerOff"
        /\ syslog[i].zone = syslog[j].zone
        /\ ZoneDict(syslog[j].zone)["power"] = "OFF"

IsDimmerLine(i) ==
    /\ syslog[i].event
    /\ syslog[i].command = "DimmerSet"
    /\ "DimmerLevel" \in DOMAIN ArgsOf(i)
    /\ DictGet(ArgsOf(i), "Address1", <<>>) # <<>>
HasNumericLevel(i) == IsDimmerLine(i) /\ IsFloatText(ArgsOf(i)["DimmerLevel"])
CacheHasAddress(addr) == KeysWithAddress(heap, light_levels, addr) # {}
TailerReadsLine == tailerPc = "reading" /\ f_pos' = f_pos + 1
TailerWritesLight ==
    /\ tailerPc = "update"
    /\ tailerPc' = "broadcast"
    /\ Decide(syslog[f_pos])[1] = "light"

\* C8 as stated: a DimmerSet line with a DimmerLevel L and an Address1 A, read
\* while the cache holds an entry with address A, makes the tailer rewrite
\* that entry and broadcast one light_state message.
C8_EveryDimmerLevelApplied ==
    /\ [][(TailerReadsLine /\ IsDimmerLine(f_pos + 1)
              /\ CacheHasAddress(ArgsOf(f_pos + 1)["Address1"]))
            => tailerPc' = "update"]_vars
    /\ [](\A i \in DoneLines \cap hadEntry : Len(MessagesOf(i)) = 1)

\* C8 as amended: a DimmerSet line whose DimmerLevel parses as a number L and
\* that has a non-empty Address1 A, read while the cache holds an entry with
\* address A, makes the tailer rewrite one such entry to level L and
\* is_on = (L > 0) with its zone and name unchanged, and broadcast exactly
\* one light_state message with address A, level L; a DimmerLevel that does
\* not parse changes nothing and yields no broadcast.
C8_NumericDimmerLevelApplied ==
    /\ [][(TailerReadsLine /\ IsDimmerLine(f_pos + 1)) =>
             LET A == ArgsOf(f_pos + 1)["Address1"]
             IN  IF HasNumericLevel(f_pos + 1) /\ CacheHasAddress(A)
                 THEN /\ tailerPc' = "update"
                      /\ tailerKey' \in KeysWithAddress(heap, light_levels, A)
                      /\ CacheValue' = CacheValue
                 ELSE /\ tailerPc' = "reading"
                      /\ CacheValue' = CacheValue]_vars
    /\ [][TailerWritesLight =>
             LET A == ArgsOf(f_pos)["Address1"]
                 L == FloatOf(ArgsOf(f_pos)["DimmerLevel"])
                 before == LightDict(heap, tailerKey)
                 after == LightDict(heap', tailerKey)
             IN  /\ after = [address |-> A, zone |-> before.zone, name |-> before.name,
                             level |-> L, is_on |-> (L > 0)]
                 /\ before.address = A
                 /\ DOMAIN heap'[light_levels] = DOMAIN heap[light_levels]
                 /\ \A k \in DOMAIN heap[light_levels] \ {tailerKey} :
                        LightDict(heap', k) = LightDict(heap, k)]_vars
    /\ [](\A i \in DoneLines :
             IsDimmerLine(i) =>
                 IF i \in hadEntry
                 THEN /\ HasNumericLevel(i)
                      /\ Len(MessagesOf(i)) = 1
                      /\ MessagesOf(i)[1].message.type = "light_state"
                      /\ MessagesOf(i)[1].message.data =
                             [address |-> ArgsOf(i)["Address1"],
                              level |-> FloatOf(ArgsOf(i)["DimmerLevel"]),
                              is_on |-> (FloatOf(ArgsOf(i)["DimmerLevel"]) > 0)]
                 ELSE MessagesOf(i) = <<>>)

\* `DimmerSet Address1 = 14 DimmerLevel = 0' was handled with a light at
\* address 14 in the cache: the light is at level 0 and off
C8_Witness ==
    \E i \in DoneLines \cap hadEntry :
        /\ HasNumericLevel(i)
        /\ FloatOf(ArgsOf(i)["DimmerLevel"]) = 0
        /\ Len(MessagesOf(i)) = 1
        /\ LightDict(heap, tailerKey).level = 0
        /\ LightDict(heap, tailerKey).is_on = FALSE

RecognizedCommands == {"SetVolume", "PowerOn", "PowerOff", "MuteOn", "MuteOff", "DimmerSet"}
Ignored(line) == ~line.event \/ line.command \notin RecognizedCommands

\* C9: a line that does not match the pattern, or matches with a command
\* other than SetVolume, PowerOn, PowerOff, MuteOn, MuteOff, DimmerSet,
\* leaves every StateCache map unchanged and produces no broadcast.
C9_OtherLinesIgnored ==
    /\ [][(TailerReadsLine /\ Ignored(syslog[f_pos + 1])) =>
             /\ CacheValue' = CacheValue
             /\ broadcasts' = broadcasts
             /\ tailerPc' = "reading"]_vars
    /\ [](\A i \in ReadLines : Ignored(syslog[i]) => MessagesOf(i) = <<>>)

\* an unmatched line and a line of an unknown command carrying a VolumeValue
\* have been read
C9_Witness ==
    /\ \E i \in ReadLines : ~syslog[i].event
    /\ \E i \in ReadLines :
           /\ syslog[i].event
           /\ syslog[i].command = "Play"
           /\ "VolumeValue" \in DOMAIN ArgsOf(i)
    /\ tailerPc = "reading"

\* C10: the tailer never terminates on an error: once it is reading the log,
\* an error raised while reading or handling a line does not end it.
C10_TailerNeverTerminates ==
    [][tailerPc = "reading" => tailerPc' # "terminated"]_vars

\* ------------------------------------------------------------------------
\* WebSocket frames (WebSocketServer._send_frame and the frame reader of
\* WebSocketServer._handle_client)
\* ------------------------------------------------------------------------
\* A byte string is a sequence of runs [n |-> count, b |-> byte], so that a
\* payload of 65536 bytes is one run.
Run(n, b) == [n |-> n, b |-> b]
Bytes(seq) == [i \in 1..Len(seq) |-> Run(1, seq[i])]

\* len(s)
RECURSIVE Size(_)
Size(s) == IF s = <<>> THEN 0 ELSE s[1].n + Size(Tail(s))

\* s[:k] and s[k:]
RECURSIVE Take(_, _)
Take(s, k) ==
    IF k = 0 \/ s = <<>> THEN <<>>
    ELSE IF s[1].n <= k THEN <<s[1]>> \o Take(Tail(s), k - s[1].n)
    ELSE <<Run(k, s[1].b)>>
RECURSIVE Drop(_, _)
Drop(s, k) ==
    IF k = 0 \/ s = <<>> THEN s
    ELSE IF s[1].n <= k THEN Drop(Tail(s), k - s[1].n)
    ELSE <<Run(s[1].n - k, s[1].b)>> \o Tail(s)

\* s[i] (0-based, as in the code)
ByteAt(s, i) == Take(Drop(s, i), 1)[1].b

\* the same bytes with equal neighbours joined: equality of byte strings
RECURSIVE Norm(_)
Norm(s) ==
    IF s = <<>> THEN <<>>
    ELSE LET rest == Norm(Tail(s))
         IN  IF s[1].n = 0 THEN rest
             ELSE IF rest # <<>> /\ rest[1].b = s[1].b
             THEN <<Run(s[1].n + rest[1].n, s[1].b)>> \o Tail(rest)
             ELSE <<s[1]>> \o rest

\* the bytes one by one (short strings only)
RECURSIVE Expand(_)
Expand(s) ==
    IF s = <<>> THEN <<>>
    ELSE IF s[1].n = 0 THEN Expand(Tail(s))
    ELSE <<s[1].b>> \o Expand(<<Run(s[1].n - 1, s[1].b)>> \o Tail(s))

\* a | b, a & b, a ^ b on non-negative integers
RECURSIVE BitOr(_, _)
BitOr(a, b) ==
    IF a = 0 THEN b ELSE IF b = 0 THEN a
    ELSE (IF a % 2 = 1 \/ b % 2 = 1 THEN 1 ELSE 0) + 2 * BitOr(a \div 2, b \div 2)
RECURSIVE BitAnd(_, _)
BitAnd(a, b) ==
    IF a = 0 \/ b = 0 THEN 0
    ELSE (IF a % 2 = 1 /\ b % 2 = 1 THEN 1 ELSE 0) + 2 * BitAnd(a \div 2, b \div 2)
RECURSIVE BitXor(_, _)
BitXor(a, b) ==
    IF a = 0 THEN b ELSE IF b = 0 THEN a
    ELSE (IF a % 2 # b % 2 THEN 1 ELSE 0) + 2 * BitXor(a \div 2, b \div 2)

\* struct.pack(">H", n) / struct.pack(">Q", n): width bytes, big-endian
RECURSIVE Pack(_, _)
Pack(n, width) ==
    IF width = 0 THEN <<>> ELSE Pack(n \div 256, width - 1) \o <<n % 256>>
\* struct.unpack(">H", s)[0] / struct.unpack(">Q", s)[0]
RECURSIVE Unpack(_)
Unpack(seq) ==
    IF seq = <<>> THEN 0 ELSE 256 * Unpack(SubSeq(seq, 1, Len(seq) - 1)) + seq[Len(seq)]

\* the length bytes of _send_frame with every length in the 7-bit form
LengthBytesShortOnly(length) == <<length % 128>>

\* the length bytes of _send_frame
LengthBytes(length) ==
    IF length < 126 THEN <<length>>
    ELSE IF length < 65536 THEN <<126>> \o Pack(length, 2)
    ELSE <<127>> \o Pack(length, 8)

\* _send_frame(client_socket, data, opcode): the bytes handed to send()
SendFrame(data, opcode) ==
    Bytes(<<BitOr(128, opcode)>> \o LengthBytes(Size(data))) \o data

\* the payload left as it arrived
UnmaskNothing(payload, mask_key) == payload

\* payload ^ mask_key, byte by byte
Unmask(payload, mask_key) ==
    LET p == Expand(payload)
        k == Expand(mask_key)
    IN  Bytes([i \in 1..Len(p) |-> BitXor(p[i], k[((i - 1) % 4) + 1])])

\* One pass of the frame reader over the bytes `stream' the peer has sent
\* (recv returns what is there, and '' once the peer has no more to send):
\*   status "eof"    recv(2) returned ''
\*   status "error"  an exception was raised (IndexError, struct.error)
\*   status "frame"  opcode, masked and payload were read
ReadFrame(stream) ==
    LET data == Take(stream, 2)
        after2 == Drop(stream, 2)
        first_byte == ByteAt(data, 0)
        second_byte == ByteAt(data, 1)
        opcode == BitAnd(first_byte, 15)
        masked == BitAnd(second_byte, 128) # 0
        len7 == BitAnd(second_byte, 127)
        extSize == IF len7 = 126 THEN 2 ELSE IF len7 = 127 THEN 8 ELSE 0
        ext == Take(after2, extSize)
        afterExt == Drop(after2, extSize)
        payload_len == IF extSize = 0 THEN len7 ELSE Unpack(Expand(ext))
        mask_key == IF masked THEN Take(afterExt, 4) ELSE <<>>
        afterKey == IF masked THEN Drop(afterExt, 4) ELSE afterExt
        payload == Take(afterKey, payload_len)
        failed == [status |-> "error", opcode |-> -1, masked |-> FALSE, payload |-> <<>>]
    IN  IF Size(data) = 0
        THEN [status |-> "eof", opcode |-> -1, masked |-> FALSE, payload |-> <<>>]
        ELSE IF Size(data) < 2 THEN failed
        ELSE IF Size(ext) < extSize THEN failed
        ELSE IF masked /\ Size(mask_key) > 0 /\ Size(mask_key) < 4 /\ Size(payload) > Size(mask_key)
        THEN failed
        ELSE [status |-> "frame", opcode |-> opcode, masked |-> masked,
              payload |-> IF masked /\ Size(mask_key) > 0
                          THEN Unmask(payload, mask_key) ELSE payload]

\* the opcodes and payloads given to the codec
Opcodes == 0..15
PayloadLengths == {0, 1, 125, 126, 127, 65535, 65536}
Payloads ==
    {IF n = 0 THEN <<>> ELSE <<Run(n, 120)>> : n \in PayloadLengths}
    \cup {<<Run(1, 0), Run(n - 1, 255)>> : n \in PayloadLengths \ {0, 1}}

\* _send_frame writes the frame
encode ==
    /\ txFrame # NoFrame
    /\ wire = <<>>
    /\ rxFrame = NoFrame
    /\ wire' = SendFrame(txFrame.data, txFrame.opcode)
    /\ UNCHANGED <<txFrame, rxFrame>>
    /\ UNCHANGED <<cacheVars, threadVars, cmdVars, tailVars, wsVars, bootVars, auxVars>>

\* the frame reader reads it back
decode ==
    /\ wire # <<>>
    /\ rxFrame = NoFrame
    /\ LET r == ReadFrame(wire)
       IN  rxFrame' = IF r.status = "frame"
                      THEN [opcode |-> r.opcode, data |-> r.payload]
                      ELSE [opcode |-> -2, data |-> <<>>]
    /\ UNCHANGED <<txFrame, wire>>
    /\ UNCHANGED <<cacheVars, threadVars, cmdVars, tailVars, wsVars, bootVars, auxVars>>

FrameWritten == encode
FrameRead == decode
InitCodecSpec ==
    /\ InitCache /\ InitThreads /\ InitCommand /\ InitTailer /\ InitWs /\ Running
    /\ InitAux
    /\ SAVANT_UIS_PORT = FallbackPort
    /\ avahi = CommandFailed
    /\ Len(db) = 1
    /\ txFrame \in [opcode : Opcodes, data : Payloads]
    /\ wire = <<>>
    /\ rxFrame = NoFrame
NextCodec == FrameWritten \/ FrameRead
SpecCodec == InitCodecSpec /\ [][NextCodec]_vars

\* C16: for every opcode and every payload of length 0, 125, 126 or 65536
\* (and the lengths next to them), the frame written by _send_frame, read
\* back by the frame reader, gives the original opcode and payload.
C16_EncodeDecodeRoundTrip ==
    rxFrame # NoFrame =>
        /\ rxFrame.opcode = txFrame.opcode
        /\ Norm(rxFrame.data) = Norm(txFrame.data)

\* a payload of 65536 bytes has been written in the 64-bit form and read back
C16_Witness ==
    /\ rxFrame # NoFrame
    /\ Size(txFrame.data) = 65536
    /\ ByteAt(wire, 1) = 127
    /\ Size(rxFrame.data) = 65536

\* ------------------------------------------------------------------------
\* SpecWs: the WebSocket server (accept, handshake, worker loop, broadcast)
\* ------------------------------------------------------------------------
Range(seq) == {seq[i] : i \in 1..Len(seq)}

\* value.lower() on the header values of the model
Lower(text) == IF text = "WebSocket" THEN "websocket" ELSE text

\* the opening requests a peer may send: `complete' is whether the blank line
\* arrived before the peer stopped sending; upgrade and key are the values of
\* the Upgrade and Sec-WebSocket-Key headers ("" when the header is absent)
Handshakes ==
    {[complete |-> TRUE, upgrade |-> "", key |-> "dGhl"],
     [complete |-> TRUE, upgrade |-> "WebSocket", key |-> ""],
     [complete |-> TRUE, upgrade |-> "WebSocket", key |-> "dGhl"]}

\* the handshake checks with the key check left out
AcceptableWithoutKey(req) ==
    /\ req.complete
    /\ Lower(req.upgrade) = "websocket"

\* the handshake checks of _handle_client
Acceptable(req) ==
    /\ req.complete
    /\ Lower(req.upgrade) = "websocket"
    /\ req.key # ""

\* list.remove(x) wrongly dropping everything from x on
RemoveFrom(list, x) ==
    LET i == CHOOSE j \in 1..Len(list) : list[j] = x
    IN  SubSeq(list, 1, i - 1)

\* list.remove(x), for x in the list at most once
Remove(list, x) == SelectSeq(list, LAMBDA y : y # x)

\* the finally block of _handle_client: leave the list, close the socket
Teardown(c) ==
    /\ clients' = IF c \in Range(clients) THEN Remove(clients, c) ELSE clients
    /\ conn' = [conn EXCEPT ![c].worker = "done", ![c].open = FALSE]

\* _server_loop: accept() returns a connection and a worker thread is started
accept(c, req) ==
    /\ listener = "listening"
    /\ conn[c].worker = "none"
    /\ \A d \in ConnIds : d < c => conn[d].worker # "none"
    /\ conn' = [conn EXCEPT ![c] = [NoConn EXCEPT !.worker = "accepted", !.open = TRUE,
                                                  !.request = req]]
    /\ UNCHANGED <<clients, wsEvents, cast, met>>
    /\ UNCHANGED <<cacheVars, threadVars, cmdVars, tailVars, frameVars, bootVars, auxVars>>

\* _handle_client up to the worker loop; sendOk is whether send(response) works
handshake(c, sendOk) ==
    /\ conn[c].worker = "accepted"
    /\ IF Acceptable(conn[c].request) /\ sendOk
       THEN /\ clients' = Append(clients, c)
            /\ conn' = [conn EXCEPT ![c].worker = "loop", ![c].sent101 = TRUE]
       ELSE Teardown(c)
    /\ UNCHANGED <<wsEvents, cast, met>>
    /\ UNCHANGED <<cacheVars, threadVars, cmdVars, tailVars, frameVars, bootVars, auxVars>>

\* a frame as a client writes it: FIN, opcode, mask bit, 7-bit length, the key
\* and the payload xor the key
MaskKey == Bytes(<<1, 2, 3, 4>>)
Mask(payload, key) ==
    LET p == Expand(payload)
    IN  Bytes([i \in 1..Len(p) |-> BitXor(p[i], Expand(key)[((i - 1) % 4) + 1])])
ClientFrame(opcode, payload, masked) ==
    IF masked
    THEN Bytes(<<BitOr(128, opcode), BitOr(128, Size(payload))>>) \o MaskKey
             \o Mask(payload, MaskKey)
    ELSE Bytes(<<BitOr(128, opcode), Size(payload)>>) \o payload

\* what a worker's recv may meet: a read timeout, an error raised by recv, or
\* the bytes the peer sent (a frame, a single byte, or nothing more)
Timeout == [kind |-> "timeout", opcode |-> -1, payload |-> <<>>, wire |-> <<>>]
Reset == [kind |-> "reset", opcode |-> -1, payload |-> <<>>, wire |-> <<>>]
Sent(opcode, payload, masked) ==
    [kind |-> "bytes", opcode |-> opcode, payload |-> payload,
     wire |-> ClientFrame(opcode, payload, masked)]
Garbage(sent) == [kind |-> "bytes", opcode |-> -1, payload |-> <<>>, wire |-> sent]
ClientEvents ==
    {Timeout, Reset, Garbage(<<>>), Garbage(Bytes(<<137>>))}
    \cup {Sent(9, Bytes(<<7, 8>>), TRUE), Sent(9, <<>>, FALSE)}
    \cup {Sent(op, Bytes(<<104, 105>>), TRUE) : op \in {1, 10}}
    \cup {Sent(8, <<>>, TRUE)}

\* the keepalive of the worker sent as a pong
KeepaliveAsPong == SendFrame(<<>>, 10)

\* self._send_frame(client_socket, "", 0x9)
Keepalive == SendFrame(<<>>, 9)

\* what one turn of the worker loop does with what recv met:
\*   breaks  the worker leaves its loop without sending
\*   reply   the frames it sends (a ping after a timeout, a pong for a ping)
Outcome(ev) ==
    LET r == ReadFrame(ev.wire)
    IN  IF ev.kind = "timeout" THEN [breaks |-> FALSE, reply |-> <<Keepalive>>]
        ELSE IF ev.kind = "reset" THEN [breaks |-> TRUE, reply |-> <<>>]
        ELSE IF r.status # "frame" \/ r.opcode = 8 THEN [breaks |-> TRUE, reply |-> <<>>]
        ELSE IF r.opcode = 9
        THEN [breaks |-> FALSE, reply |-> <<SendFrame(r.payload, 10)>>]
        ELSE [breaks |-> FALSE, reply |-> <<>>]

\* one turn of the worker loop of _handle_client: recv meets `ev'; sendOk is
\* whether the send made in this turn works (TRUE when none is made).  A
\* socket that broadcast has closed makes recv raise.
recv(c, ev, sendOk) ==
    /\ conn[c].worker = "loop"
    /\ wsEvents < MaxEvents
    /\ ~conn[c].open => ev = Reset
    /\ wsEvents' = wsEvents + 1
    /\ met' = [n |-> met.n + 1, conn |-> c, kind |-> ev.kind, opcode |-> ev.opcode,
                payload |-> ev.payload, wire |-> ev.wire, sendOk |-> sendOk]
    /\ LET o == Outcome(ev)
       IN  /\ o.reply = <<>> => sendOk
           /\ IF o.breaks \/ ~sendOk
              THEN /\ clients' = IF c \in Range(clients) THEN Remove(clients, c)
                                 ELSE clients
                   /\ conn' = [conn EXCEPT ![c].worker = "done", ![c].open = FALSE]
              ELSE /\ conn' = [conn EXCEPT ![c].outbox = @ \o o.reply]
                   /\ UNCHANGED clients
    /\ UNCHANGED cast
    /\ UNCHANGED <<cacheVars, threadVars, cmdVars, tailVars, frameVars, bootVars, auxVars>>

\* the messages given to broadcast: broadcast_state_change passes a dict (the
\* model has the empty one)
Messages == {[isDict |-> TRUE, text |-> <<>>]}
\* json.dumps(message) for a dict; a str is sent as it is
Dumps(message) == IF message.isDict THEN Bytes(<<123, 125>>) ELSE message.text

\* the clients reached when the loop of broadcast stops at the first failure
ReachedUntilFailure(list, fails) ==
    {list[i] : i \in {j \in 1..Len(list) : \A k \in 1..j : list[k] \notin fails}}

\* the clients whose send succeeds in the loop of broadcast
Reached(list, fails) == Range(list) \ fails

\* WebSocketServer.broadcast(message): fails is the set of clients whose send
\* raises
broadcast(message, fails) ==
    /\ wsEvents < MaxEvents
    /\ fails \subseteq Range(clients)
    /\ wsEvents' = wsEvents + 1
    /\ LET text == SendFrame(Dumps(message), 1)
       IN  /\ conn' = [c \in ConnIds |->
                         IF c \in fails THEN [conn[c] EXCEPT !.open = FALSE]
                         ELSE IF c \in Reached(clients, fails)
                         THEN [conn[c] EXCEPT !.outbox = Append(@, text)]
                         ELSE conn[c]]
           /\ cast' = [n |-> cast.n + 1, targets |-> Range(clients), fails |-> fails,
                       frame |-> text]
    /\ clients' = SelectSeq(clients, LAMBDA c : c \notin fails)
    /\ UNCHANGED met
    /\ UNCHANGED <<cacheVars, threadVars, cmdVars, tailVars, frameVars, bootVars, auxVars>>

Accepts == \E c \in ConnIds : \E req \in Handshakes : accept(c, req)
Handshake == \E c \in ConnIds : \E sendOk \in BOOLEAN : handshake(c, sendOk)
WorkerTurn == \E c \in ConnIds : \E ev \in ClientEvents : \E sendOk \in BOOLEAN :
                  recv(c, ev, sendOk)
Broadcast == \E message \in Messages : \E fails \in SUBSET Range(clients) :
                 broadcast(message, fails)
InitWsSpec ==
    /\ InitCache /\ InitThreads /\ InitCommand /\ InitTailer /\ InitServer
    /\ SAVANT_UIS_PORT = FallbackPort
    /\ avahi = CommandFailed
    /\ Len(db) = 1
NextWs == Accepts \/ Handshake \/ WorkerTurn \/ Broadcast
SpecWs == InitWsSpec /\ [][NextWs]_vars

Last(seq) == seq[Len(seq)]
\* the worker of c has taken one more turn in this step
TurnOf(c) == met'.n = met.n + 1 /\ met'.conn = c
Registered(c) == c \in Range(clients)
SameBytes(s, t) == Norm(s) = Norm(t)

\* C11: broadcast attempts one send to every connection registered at the
\* call; a connection whose send fails is removed and closed, and every other
\* registered connection is sent the frame once and stays registered.
C11_BroadcastReachesEveryOtherClient ==
    [][cast'.n = cast.n + 1 =>
          /\ cast'.targets = Range(clients)
          /\ \A c \in ConnIds :
                IF ~Registered(c) THEN conn'[c] = conn[c]
                ELSE IF c \in cast'.fails
                THEN /\ c \notin Range(clients')
                     /\ ~conn'[c].open
                     /\ conn'[c].outbox = conn[c].outbox
                ELSE /\ c \in Range(clients')
                     /\ conn'[c].open
                     /\ conn'[c].outbox = Append(conn[c].outbox, cast'.frame)]_vars

\* a broadcast to two clients in which one send failed and the other client
\* was sent the frame
C11_Witness ==
    /\ cast.n > 0
    /\ \E c, d \in cast.targets :
          /\ c \in cast.fails
          /\ ~conn[c].open
          /\ ~Registered(c)
          /\ d \notin cast.fails
          /\ Registered(d)
          /\ conn[d].outbox # <<>>
          /\ Last(conn[d].outbox) = cast.frame

\* C12: a connection is in the broadcast list only after a complete opening
\* handshake; one whose request lacks `Upgrade: websocket' or lacks the
\* Sec-WebSocket-Key is closed without a 101 response, is never in the list
\* and is never sent a frame.
C12_RegisteredOnlyAfterHandshake ==
    \A c \in ConnIds :
        LET req == conn[c].request
            lacking == req.upgrade \notin {"websocket", "WebSocket"} \/ req.key = ""
        IN  /\ Registered(c) => (conn[c].sent101 /\ ~lacking)
            /\ (conn[c].worker # "none" /\ lacking) =>
                  /\ ~Registered(c)
                  /\ ~conn[c].sent101
                  /\ conn[c].outbox = <<>>
                  /\ conn[c].worker \in {"accepted", "done"}
                  /\ conn[c].worker = "done" => ~conn[c].open

\* a request without the key was refused while another connection is
\* registered and has been sent a broadcast
C12_Witness ==
    \E c, d \in ConnIds :
        /\ conn[c].worker = "done"
        /\ conn[c].request.upgrade = "WebSocket"
        /\ conn[c].request.key = ""
        /\ ~conn[c].open
        /\ Registered(d)
        /\ conn[d].outbox # <<>>
        /\ cast.n > 0

\* C13: when the worker of a connection ends, that connection is removed from
\* the broadcast list and closed, and every other connection is as it was:
\* registered if it was, open if it was.
C13_WorkerEndDropsOnlyItsConnection ==
    [][\A c \in ConnIds :
          (conn[c].worker = "loop" /\ conn'[c].worker = "done") =>
              /\ ~conn'[c].open
              /\ clients' = SelectSeq(clients, LAMBDA d : d # c)
              /\ \A d \in ConnIds \ {c} : conn'[d] = conn[d]]_vars

\* a worker has ended on a close frame while another connection is registered
C13_Witness ==
    \E c, d \in ConnIds :
        /\ c # d
        /\ conn[c].worker = "done"
        /\ conn[c].sent101
        /\ met.conn = c
        /\ met.opcode = 8
        /\ ~Registered(c)
        /\ Registered(d)
        /\ conn[d].open

\* C14: for every ping frame read on a registered connection the worker sends
\* exactly one pong frame with the same unmasked payload; a pong frame or a
\* data frame causes no reply, no cache change and no broadcast.
C14_PingAnsweredOthersIgnored ==
    [][\A c \in ConnIds :
          (TurnOf(c) /\ met'.kind = "bytes") =>
              LET ev == met'
                  pong == Bytes(<<138, Size(ev.payload)>>) \o ev.payload
              IN  /\ (ev.opcode = 9 /\ ev.sendOk) =>
                         /\ Len(conn'[c].outbox) = Len(conn[c].outbox) + 1
                         /\ SubSeq(conn'[c].outbox, 1, Len(conn[c].outbox)) = conn[c].outbox
                         /\ SameBytes(Last(conn'[c].outbox), pong)
                         /\ conn'[c].worker = "loop"
                         /\ clients' = clients
                  /\ (ev.opcode = 9 /\ ~ev.sendOk) => conn'[c].outbox = conn[c].outbox
                  /\ ev.opcode \in {1, 10} =>
                         /\ conn'[c] = conn[c]
                         /\ clients' = clients
                         /\ cast' = cast
                         /\ broadcasts' = broadcasts
                         /\ CacheValue' = CacheValue]_vars

\* a masked ping with payload 07 08 has been answered with the pong 8A 02 07 08
C14_Witness ==
    \E c \in ConnIds :
        /\ Registered(c)
        /\ met.conn = c
        /\ met.opcode = 9
        /\ ReadFrame(met.wire).masked
        /\ met.payload = Bytes(<<7, 8>>)
        /\ conn[c].outbox = <<Bytes(<<138, 2, 7, 8>>)>>

\* C15: each read timeout on a registered connection makes the worker send one
\* ping frame; if the send fails the connection is removed from the list and
\* closed, and if it succeeds the connection stays registered and the worker
\* goes on reading.
C15_TimeoutSendsPing ==
    [][\A c \in ConnIds :
          (TurnOf(c) /\ met'.kind = "timeout") =>
              IF met'.sendOk
              THEN /\ conn'[c].outbox = Append(conn[c].outbox, Bytes(<<137, 0>>))
                   /\ conn'[c].worker = "loop"
                   /\ conn'[c].open
                   /\ Registered(c)
                   /\ clients' = clients
              ELSE /\ conn'[c].outbox = conn[c].outbox
                   /\ conn'[c].worker = "done"
                   /\ ~conn'[c].open
                   /\ c \notin Range(clients')]_vars

\* a connection has had two read timeouts: the first ping was sent and the
\* worker went on reading, the second could not be sent
C15_Witness ==
    \E c \in ConnIds :
        /\ met.n = 2
        /\ met.conn = c
        /\ met.kind = "timeout" /\ ~met.sendOk
        /\ conn[c].outbox = <<Bytes(<<137, 0>>)>>
        /\ ~Registered(c)
        /\ ~conn[c].open

\* ------------------------------------------------------------------------
\* SpecRead: the read endpoints of the REST facade (do_GET)
\* ------------------------------------------------------------------------
\* the States dict of a status file as parse_gnustep_plist returns it ({} for
\* a file that cannot be parsed)
PlistStates ==
    {EmptyDict,
     [Power |-> "ON"],
     [login |-> "admin", SavantHostName |-> "host"],
     [Power |-> "OFF", Version |-> "1"]}
Components == {"Receiver", "Lutron"}

\* a filter that knows the credentials and forgets the version markers
NotAStateCredentialsOnly(key) ==
    \/ key \in {"SavantHostName"}
    \/ key \in {"login", "password"}

\* key.startswith('SavantHost') or key in ('login', 'password', ...)
NotAState(key) ==
    \/ key \in {"SavantHostName"}
    \/ key \in {"login", "password", "ComponentProfileVersion", "Version"}
Filtered(states) == [k \in {x \in DOMAIN states : ~NotAState(x)} |-> states[k]]

\* load_plist_to_cache(filepath) on the heap
LoadPlist(h, cs, component_name, states) ==
    IF Filtered(states) = EmptyDict THEN h
    ELSE StoreComponent(Alloc(h, Filtered(states)), cs, component_name, NewId(h))

\* for plist_file in glob.glob(plist_pattern): load_plist_to_cache(plist_file)
RECURSIVE LoadAll(_, _, _)
LoadAll(h, cs, files) ==
    IF DOMAIN files = {} THEN h
    ELSE LET name == CHOOSE n \in DOMAIN files : TRUE
         IN  LoadAll(LoadPlist(h, cs, name, files[name]), cs, DictDel(files, name))

\* the status directory: component name -> States of its file
Directories == UNION {[S -> PlistStates] : S \in SUBSET Components}

\* plist_watcher_thread sees a status file written and loads it
plist_load(component_name, states) ==
    /\ request = NoRequest
    /\ Len(heap) < MaxObjs
    /\ LockFree(lock)
    /\ Filtered(states) # EmptyDict
    /\ heap' = LoadPlist(heap, component_states, component_name, states)
    /\ \E now \in Times : last_update' = now
    /\ UNCHANGED <<component_states, light_levels, zone_states, lock>>
    /\ UNCHANGED <<threadVars, cmdVars, tailVars, srvVars>>

\* the configuration database becomes unreadable / readable again
db_toggle ==
    /\ request = NoRequest
    /\ dbUp' = ~dbUp
    /\ UNCHANGED <<avahi, mainPc, listener>>
    /\ UNCHANGED <<cacheVars, threadVars, cmdVars, tailVars, wsVars, frameVars, auxVars>>

\* a GET request is taken up and answered with `status'
Answer(path, status) ==
    /\ request = NoRequest
    /\ handled < MaxRequests
    /\ mainPc = "serving"
    /\ request' = [method |-> "GET", path |-> path, hasLength |-> FALSE,
                   body |-> <<"none">>]
    /\ response' = status
    /\ handled' = handled + 1
    /\ UNCHANGED <<SAVANT_UIS_PORT, sock, udp, udpBefore>>

\* GET /zones (handle_zones) and GET /lights (handle_lights): the database
\* is queried; any exception is answered with send_error(500)
handle_zones ==
    /\ Answer("/zones", IF dbUp THEN 200 ELSE 500)
    /\ UNCHANGED <<cacheVars, threadVars, tailVars, srvVars>>
handle_lights ==
    /\ Answer("/lights", IF dbUp THEN 200 ELSE 500)
    /\ UNCHANGED <<cacheVars, threadVars, tailVars, srvVars>>

\* GET /zones/state (handle_zones_state): STATE_CACHE.get_all_zone_states()
handle_zones_state ==
    /\ Answer("/zones/state", 200)
    /\ LockFree(lock)
    /\ heap' = DictCopy(heap, zone_states)
    /\ UNCHANGED <<component_states, light_levels, zone_states, last_update, lock>>
    /\ UNCHANGED <<threadVars, tailVars, srvVars>>

\* GET /state (handle_state): get_components(); if the cache is empty, every
\* status file is loaded and get_components() is called again
handle_state(files) ==
    /\ Answer("/state", 200)
    /\ LockFree(lock)
    /\ LET h1 == DictCopy(heap, component_states)
           h2 == LoadAll(h1, component_states, files)
       IN  IF DOMAIN heap[component_states] # {}
           THEN /\ heap' = h1
                /\ UNCHANGED last_update
           ELSE /\ heap' = DictCopy(h2, component_states)
                /\ IF h2 = h1 THEN UNCHANGED last_update
                   ELSE \E now \in Times : last_update' = now
    /\ UNCHANGED <<component_states, light_levels, zone_states, lock>>
    /\ UNCHANGED <<threadVars, tailVars, srvVars>>

WatcherLoads == \E c \in Components : \E states \in PlistStates : plist_load(c, states)
DatabaseChanges == db_toggle
GetZones == handle_zones
GetZonesState == handle_zones_state
GetLights == handle_lights
GetLightsStatus ==
    \E levels \in UNION {[S -> Levels] : S \in SUBSET (DOMAIN AddressMap(db, EmptyDict))} :
        mainPc = "serving" /\ handle_lights_status(dbUp, levels)
GetState == \E files \in Directories : handle_state(files)
InitReadSpec ==
    /\ InitCache /\ InitThreads /\ InitCommand /\ InitTailer /\ InitServer
    /\ SAVANT_UIS_PORT = FallbackPort
    /\ avahi = CommandFailed
    /\ Len(db) = 2
NextRead ==
    \/ WatcherLoads
    \/ DatabaseChanges
    \/ GetZones
    \/ GetZonesState
    \/ GetLights
    \/ GetLightsStatus
    \/ GetState
    \/ RequestDone
SpecRead == InitReadSpec /\ [][NextRead]_vars

ReadPaths == {"/zones", "/zones/state", "/lights", "/lights/status", "/state"}
DirectoryPaths == {"/zones", "/lights", "/lights/status"}

\* C17: handling a read endpoint (GET /zones, /zones/state, /lights,
\* /lights/status, /state) leaves every StateCache map unchanged.
C17_ReadEndpointsLeaveCacheUnchanged ==
    [][(request = NoRequest /\ request'.method = "GET" /\ request'.path \in ReadPaths)
          => CacheValue' = CacheValue]_vars

\* C18: when the configuration database cannot be read, each directory
\* endpoint (GET /zones, /lights, /lights/status) answers 200 with an empty
\* collection, not an error status.
C18_DirectoryEndpointsAnswerEmpty ==
    (/\ request.method = "GET"
     /\ request.path \in DirectoryPaths
     /\ ~dbUp) => response = 200

\* ------------------------------------------------------------------------
\* SpecBoot: module load (port discovery) and main()
\* ------------------------------------------------------------------------
\* a line counts when it starts with `=', contains IPv4 and has 9 parts
IsRecord(line) == line.resolved /\ line.proto = "IPv4" /\ line.parts >= 9

\* discover_uis_port returning the port of the last record instead
discover_last_record(out) ==
    LET records == SelectSeq(out.lines, IsRecord)
    IN  IF ~out.ok \/ records = <<>> THEN FallbackPort
        ELSE IF IsIntText(records[Len(records)].port)
        THEN IntOf(records[Len(records)].port)
        ELSE FallbackPort

\* discover_uis_port(): the loop returns at the first record; int() raising
\* on its port, like check_output raising, is caught and leads to the fallback
discover_uis_port(out) ==
    LET records == SelectSeq(out.lines, IsRecord)
    IN  IF ~out.ok \/ records = <<>> THEN FallbackPort
        ELSE IF IsIntText(records[1].port) THEN IntOf(records[1].port)
        ELSE FallbackPort

\* what the discovery command may do
OtherLine == Record(TRUE, "IPv4", 10, <<"4", "9", "1", "5", "3">>)
DiscoveryOutputs ==
    {CommandFailed,
     Output(<<>>),
     Output(<<Record(FALSE, "IPv4", 6, <<>>)>>),
     Output(<<DiscoveredLine>>),
     Output(<<Record(FALSE, "IPv4", 6, <<>>), Record(TRUE, "IPv6", 10, <<"4", "9", "1", "5", "3">>),
              DiscoveredLine>>),
     Output(<<DiscoveredLine, OtherLine>>),
     Output(<<OtherLine, DiscoveredLine>>),
     Output(<<Record(TRUE, "IPv4", 8, <<>>), DiscoveredLine>>),
     Output(<<Record(TRUE, "IPv4", 10, <<"x">>), DiscoveredLine>>)}

\* main(): WS_SERVER = WebSocketServer(WEBSOCKET_PORT); WS_SERVER.start()
main_start_ws ==
    /\ mainPc = "start"
    /\ mainPc' = "started"
    /\ listener' = "binding"
    /\ UNCHANGED <<avahi, dbUp>>
    /\ UNCHANGED <<cacheVars, threadVars, cmdVars, tailVars, wsVars, frameVars, auxVars>>

\* _server_loop: bind and listen; an exception raised by bind is handled
\* nowhere and ends the thread
server_loop_bind(ok) ==
    /\ listener = "binding"
    /\ mainPc # "aborted"
    /\ listener' = IF ok THEN "listening" ELSE "failed"
    /\ UNCHANGED <<avahi, mainPc, dbUp>>
    /\ UNCHANGED <<cacheVars, threadVars, cmdVars, tailVars, wsVars, frameVars, auxVars>>

\* main(): the watcher threads are started, then HTTPServer(server_address,
\* ...) binds the HTTP port; an exception raised there ends main and with it
\* the process (every other thread is a daemon)
main_bind_http(ok) ==
    /\ mainPc = "started"
    /\ mainPc' = IF ok THEN "serving" ELSE "aborted"
    /\ UNCHANGED <<avahi, listener, dbUp>>
    /\ UNCHANGED <<cacheVars, threadVars, cmdVars, tailVars, wsVars, frameVars, auxVars>>

\* the commands posted once the relay serves
CompleteCommand(arguments) ==
    <<"object", ObjectOf([zone |-> JString("Den"), component |-> JString("Receiver"),
                          logicalComponent |-> JString("Main"),
                          service |-> JString("SVC_AV"), command |-> JString("SetVolume"),
                          serviceVariantID |-> JString("2"), arguments |-> arguments])>>
BootBodies ==
    {<<"garbage">>, CompleteCommand(Absent),
     CompleteCommand(<<"object", <<<<"VolumeValue", JString("45")>>>>>>)}

MainStartsWs == main_start_ws
ListenerBinds == \E ok \in BOOLEAN : server_loop_bind(ok)
MainBindsHttp == \E ok \in BOOLEAN : main_bind_http(ok)
ServesCommand ==
    /\ mainPc = "serving"
    /\ \E body \in BootBodies : \E sockOk \in BOOLEAN : \E sendOk \in BOOLEAN :
           do_POST("/command", TRUE, body, sockOk, sendOk)
InitBootSpec ==
    /\ InitCache /\ InitThreads /\ InitTailer /\ InitWs /\ IdleCodec /\ InitAux
    /\ avahi \in DiscoveryOutputs
    /\ SAVANT_UIS_PORT = discover_uis_port(avahi)
    /\ request = NoRequest
    /\ response = 0
    /\ sock = NoSocket
    /\ udp = <<>>
    /\ udpBefore = 0
    /\ handled = 0
    /\ Len(db) = 1
    /\ mainPc = "start"
    /\ listener = "unstarted"
    /\ dbUp = TRUE
NextBoot ==
    \/ MainStartsWs
    \/ ListenerBinds
    \/ MainBindsHttp
    \/ ServesCommand
    \/ RequestDone
SpecBoot == InitBootSpec /\ [][NextBoot]_vars

\* C19: if the WebSocket port or the HTTP port cannot be bound, start-up is
\* aborted: the relay never serves HTTP requests with the WebSocket server
\* having failed to listen.
C19_NoServingWithoutWebSocket ==
    ~(mainPc = "serving" /\ listener = "failed")

\* C20: discovery always yields a port: the port of the first resolved IPv4
\* record, and 45600 when the command fails or prints no such record; the
\* port never changes after start-up and every datagram is sent to it.
C20_PortDiscoveredOnceOrFallback ==
    /\ [](LET records == SelectSeq(avahi.lines, IsRecord)
              first == records[1].port
          IN  /\ SAVANT_UIS_PORT \in 1..65535
              /\ (~avahi.ok \/ records = <<>>) => SAVANT_UIS_PORT = 45600
              /\ (avahi.ok /\ records # <<>> /\ first = <<"4", "9", "1", "5", "2">>)
                     => SAVANT_UIS_PORT = 49152
              /\ (avahi.ok /\ records # <<>> /\ first = <<"4", "9", "1", "5", "3">>)
                     => SAVANT_UIS_PORT = 49153
              /\ \A i \in 1..Len(udp) : udp[i].port = SAVANT_UIS_PORT)
    /\ [][SAVANT_UIS_PORT' = SAVANT_UIS_PORT]_vars

\* two records were printed, the first with port 49152, and a command
\* datagram has been sent to port 49152
C20_Witness ==
    /\ avahi = Output(<<DiscoveredLine, OtherLine>>)
    /\ SAVANT_UIS_PORT = 49152
    /\ udp # <<>>
    /\ udp[1].port = 49152
    /\ mainPc = "serving"

\* ------------------------------------------------------------------------
\* SpecWatch: the status-file watcher (plist_watcher_thread with its
\* fallback plist_poller_thread) and the status directory it watches
\* ------------------------------------------------------------------------
\* file names: <<stem, extension>>
Matching == {<<c, ".avc.plist">> : c \in Components}
OtherFile == <<"relay", ".log">>

\* name.endswith('.avc.plist')
IsPlist(name) == name[2] = ".avc.plist"

\* filename.replace('.avc.plist', '')
ComponentName(name) == name[1]

\* what a status file can hold
WellFormed(states) == [wellFormed |-> TRUE, states |-> states]
FileContents ==
    {Unparsable,
     WellFormed([Power |-> "ON"]),
     WellFormed([login |-> "admin", SavantHostName |-> "host"]),
     WellFormed([Power |-> "OFF", Version |-> "1"])}
File(content, mtime) == [content |-> content, mtime |-> mtime]

\* the directory when the relay starts
StartDirectories ==
    {d \in UNION {[S -> {File(c, 1) : c \in FileContents}] : S \in SUBSET Matching} :
        /\ <<"Receiver", ".avc.plist">> \in DOMAIN d
               => d[<<"Receiver", ".avc.plist">>].content
                      \in {Unparsable, WellFormed([Power |-> "ON"])}
        /\ <<"Lutron", ".avc.plist">> \in DOMAIN d
               => d[<<"Lutron", ".avc.plist">>].content
                      = WellFormed([Power |-> "OFF", Version |-> "1"])}

\* a parser that reports its failure as a state of the component
parse_error_as_state(content) ==
    IF content.wellFormed THEN content.states ELSE [Error |-> "parse"]

\* parse_gnustep_plist(filepath): data.get('States', {}), and {} on any
\* exception
parse_gnustep_plist(content) ==
    IF content.wellFormed THEN content.states ELSE EmptyDict

\* load_plist_to_cache(filepath) on the heap
load_plist_to_cache(h, cs, name, content) ==
    LoadPlist(h, cs, ComponentName(name), parse_gnustep_plist(content))

\* the watcher calls load_plist_to_cache(name) in `phase'
WatcherLoad(name, phase) ==
    LET content == statusDir[name].content
    IN  /\ LockFree(lock)
        /\ heap' = load_plist_to_cache(heap, component_states, name, content)
        /\ IF Filtered(parse_gnustep_plist(content)) = EmptyDict
           THEN UNCHANGED last_update
           ELSE \E now \in Times : last_update' = now
        /\ loaded' = [n |-> 1 - loaded.n, name |-> name, content |-> content,
                      phase |-> phase]
        /\ dirty' = dirty \ {name}
        /\ parseFailed' = (parseFailed \/ ~content.wellFormed)
        /\ UNCHANGED <<component_states, light_levels, zone_states, lock>>

besideWatch == <<threadVars, cmdVars, tailVars, wsVars, frameVars, bootVars, lutVars,
                 haVars, syncVars,
    clientVars>>

\* glob.glob(plist_pattern): the list the initial loop will go through
watcher_start ==
    /\ watcherPc = "start"
    /\ watcherPc' = "scan"
    /\ globbed' = DOMAIN statusDir
    /\ UNCHANGED <<statusDir, scanned, events, buf, file_mtimes, writes, loaded, dirty,
                   parseFailed, setup, polled>>
    /\ UNCHANGED <<cacheVars, besideWatch>>

\* for plist_file in glob.glob(plist_pattern): load_plist_to_cache(plist_file)
watcher_scan(name) ==
    /\ watcherPc = "scan"
    /\ name \in globbed \ DOMAIN scanned
    /\ WatcherLoad(name, "scan")
    /\ scanned' = DictSet(scanned, name, statusDir[name].content)
    /\ UNCHANGED <<statusDir, watcherPc, globbed, events, buf, file_mtimes, writes, setup,
                   polled>>
    /\ UNCHANGED besideWatch

\* a watcher that goes on to wait as soon as one file is loaded
ScanCompleteAfterFirst(listed, done) == listed = {} \/ DOMAIN done # {}

\* the initial loop has gone through the whole list
ScanComplete(listed, done) == listed = DOMAIN done

\* how lines 440-462 can end: the watch is added, inotify_init returns fd < 0,
\* inotify_add_watch returns wd < 0, or one of the calls raises
SetupOutcomes == {"watching", "init_failed", "add_watch_failed", "raised"}

\* a watcher that goes on to the event loop although the watch was not added
StrategyIgnoringAddWatch(outcome) ==
    IF outcome \in {"watching", "add_watch_failed"} THEN "watching" ELSE "polling"

\* the loop the thread is in after the setup: `while True' of line 465, or
\* plist_poller_thread() called at line 450, 459 or 498
Strategy(outcome) == IF outcome = "watching" THEN "watching" ELSE "polling"

\* inotify_init / inotify_add_watch: the watch is set up, or any failure
\* (fd < 0, wd < 0, an exception) hands over to plist_poller_thread
watcher_setup(outcome) ==
    /\ watcherPc = "scan"
    /\ ScanComplete(globbed, scanned)
    /\ watcherPc' = Strategy(outcome)
    /\ setup' = IF outcome = "watching" THEN "watching" ELSE "failed"
    /\ file_mtimes' = <<>>
    /\ UNCHANGED <<statusDir, globbed, scanned, events, buf, writes, loaded, dirty,
                   parseFailed, polled>>
    /\ UNCHANGED <<cacheVars, besideWatch>>

\* select.select([fd], ...) reports the fd ready; buf = os.read(fd, 4096)
inotify_read ==
    /\ watcherPc = "watching"
    /\ buf = <<>>
    /\ events # <<>>
    /\ buf' = events
    /\ events' = <<>>
    /\ UNCHANGED <<statusDir, watcherPc, globbed, scanned, file_mtimes, writes, loaded,
                   dirty, parseFailed, setup, polled>>
    /\ UNCHANGED <<cacheVars, besideWatch>>

\* one turn of `while offset < len(buf)': the next event of the buffer
inotify_event ==
    /\ watcherPc = "watching"
    /\ buf # <<>>
    /\ buf' = Tail(buf)
    /\ IF IsPlist(Head(buf)) /\ Head(buf) \in DOMAIN statusDir
       THEN WatcherLoad(Head(buf), "event")
       ELSE UNCHANGED <<cacheVars, loaded, dirty, parseFailed>>
    /\ UNCHANGED <<statusDir, watcherPc, globbed, scanned, events, file_mtimes, writes,
                   setup, polled>>
    /\ UNCHANGED besideWatch

\* a poller that loads a file the first time it sees it and never again
FirstSightOnly(mtimes, name, mtime) == name \notin DOMAIN mtimes

\* plist_file not in file_mtimes or file_mtimes[plist_file] != mtime
MtimeChanged(mtimes, name, mtime) ==
    IF name \in DOMAIN mtimes THEN mtimes[name] # mtime ELSE TRUE

\* plist_poller_thread: one file of a pass over glob.glob(plist_pattern): it
\* is loaded when its mtime is new, and passed over otherwise
poll_file(name) ==
    /\ watcherPc = "polling"
    /\ name \in DOMAIN statusDir
    /\ polled' = name
    /\ IF MtimeChanged(file_mtimes, name, statusDir[name].mtime)
       THEN /\ file_mtimes' = DictSet(file_mtimes, name, statusDir[name].mtime)
            /\ WatcherLoad(name, "poll")
       ELSE UNCHANGED <<file_mtimes, cacheVars, loaded, dirty, parseFailed>>
    /\ UNCHANGED <<statusDir, watcherPc, globbed, scanned, events, buf, writes, setup>>
    /\ UNCHANGED besideWatch

\* the controller writes a status file
write_file(name, content) ==
    /\ writes < MaxWrites
    /\ writes' = writes + 1
    /\ statusDir' = DictSet(statusDir, name,
                            File(content, IF name \in DOMAIN statusDir
                                          THEN statusDir[name].mtime + 1 ELSE 1))
    /\ events' = IF watcherPc = "watching" THEN Append(events, name) ELSE events
    /\ dirty' = IF watcherPc \in {"watching", "polling"} THEN dirty \cup {name} ELSE dirty
    /\ UNCHANGED <<watcherPc, globbed, scanned, buf, file_mtimes, loaded, parseFailed,
                   setup, polled>>
    /\ UNCHANGED <<cacheVars, besideWatch>>

\* another file of the directory is written
write_other ==
    /\ writes < MaxWrites
    /\ watcherPc = "watching"
    /\ writes' = writes + 1
    /\ events' = Append(events, OtherFile)
    /\ UNCHANGED <<statusDir, watcherPc, globbed, scanned, buf, file_mtimes, loaded,
                   dirty, parseFailed, setup, polled>>
    /\ UNCHANGED <<cacheVars, besideWatch>>

\* the States dict of every file of the directory, by component
ParsedDirectory ==
    [c \in {ComponentName(n) : n \in DOMAIN statusDir} |->
        parse_gnustep_plist(statusDir[<<c, ".avc.plist">>].content)]

WatcherStarts == watcher_start
WatcherScans == \E name \in Matching : watcher_scan(name)
WatcherSetsUp == \E outcome \in SetupOutcomes : watcher_setup(outcome)
WatcherReads == inotify_read
WatcherHandlesEvent == inotify_event
PollerLoads == \E name \in Matching : poll_file(name)
FileWritten ==
    \E name \in Matching : \E content \in FileContents \ {WellFormed([Power |-> "ON"])} :
        write_file(name, content)
OtherFileWritten == write_other
\* GET /state arriving while the cache is still empty
GetStateLazy == DOMAIN heap[component_states] = {} /\ handle_state(ParsedDirectory)
InitWatchSpec ==
    /\ InitCache /\ InitThreads /\ InitCommand /\ InitTailer
    /\ InitWs /\ IdleCodec /\ Running /\ ListenerDisabled /\ EntitiesIdle /\ SyncIdle
    /\ ClientIdle
    /\ SAVANT_UIS_PORT = FallbackPort
    /\ avahi = CommandFailed
    /\ Len(db) = 1
    /\ statusDir \in StartDirectories
    /\ watcherPc = "start"
    /\ globbed = {}
    /\ scanned = <<>>
    /\ events = <<>>
    /\ buf = <<>>
    /\ file_mtimes = <<>>
    /\ writes = 0
    /\ loaded = NoLoad
    /\ dirty = {}
    /\ parseFailed = FALSE
    /\ setup = "none"
    /\ polled = NoPoll
NextWatch ==
    \/ WatcherStarts
    \/ WatcherScans
    \/ WatcherSetsUp
    \/ WatcherReads
    \/ WatcherHandlesEvent
    \/ PollerLoads
    \/ FileWritten
    \/ OtherFileWritten
    \/ GetStateLazy
    \/ RequestDone
SpecWatch == InitWatchSpec /\ [][NextWatch]_vars

\* the watcher is a thread of its own that is never suspended for good: each
\* of its steps is taken once it stays possible, the poller goes through every
\* file of the directory on each pass, and a request handler returns
SpecWatchFair ==
    /\ SpecWatch
    /\ WF_vars(WatcherStarts)
    /\ WF_vars(WatcherScans)
    /\ WF_vars(WatcherSetsUp)
    /\ WF_vars(WatcherReads)
    /\ WF_vars(WatcherHandlesEvent)
    /\ \A name \in Matching : WF_vars(poll_file(name))
    /\ WF_vars(RequestDone)

\* the keys the claims call bookkeeping keys
BookkeepingKeys ==
    {"SavantHost", "SavantHostName", "login", "password", "ComponentProfileVersion",
     "Version"}
StateKeysOf(states) == [k \in DOMAIN states \ BookkeepingKeys |-> states[k]]

\* the cache entry of a component ({} when it has none)
Entry(c) ==
    IF c \in DOMAIN heap[component_states]
    THEN heap[heap[component_states][c]]
    ELSE EmptyDict

\* every file written since the watcher loaded it last is still ahead of the
\* watcher: an event for it is queued, or its mtime is new to the poller
NoChangeLost ==
    \A name \in dirty :
        CASE watcherPc = "watching" -> name \in Range(events) \cup Range(buf)
          [] watcherPc = "polling" ->
                 IF name \in DOMAIN file_mtimes
                 THEN file_mtimes[name] # statusDir[name].mtime
                 ELSE TRUE
          [] OTHER -> FALSE

\* C21: a status file that cannot be parsed changes nothing in the cache and
\* leaves the watcher where it is; the watcher, event-driven or polling, never
\* leaves its loop, and after a parse failure every file written since its
\* last load is still ahead of the watcher.
C21_ParseFailureDoesNotStopWatcher ==
    /\ [][(loaded'.n # loaded.n /\ ~loaded'.content.wellFormed)
             => (CacheValue' = CacheValue /\ watcherPc' = watcherPc)]_vars
    /\ [][(watcherPc \in {"watching", "polling"}) => watcherPc' = watcherPc]_vars
    /\ [](parseFailed => NoChangeLost)
C21_Witness ==
    /\ globbed = {}
    /\ parseFailed
    /\ loaded.phase \in {"event", "poll"}
    /\ loaded.content = WellFormed([Power |-> "OFF", Version |-> "1"])
    /\ Entry(ComponentName(loaded.name)) = [Power |-> "OFF"]
    /\ dirty = {}

\* C28: no component state map of the cache holds a key that starts with
\* SavantHost or is login, password, ComponentProfileVersion or Version,
\* whichever path stored it (initial scan, event, poll, GET /state).
C28_NoBookkeepingKeysInCache ==
    \A c \in DOMAIN heap[component_states] :
        DOMAIN heap[heap[component_states][c]] \cap BookkeepingKeys = {}
C28_Witness ==
    \E name \in DOMAIN statusDir :
        /\ "Version" \in DOMAIN statusDir[name].content.states
        /\ ComponentName(name) \in DOMAIN heap[component_states]
        /\ Entry(ComponentName(name)) = [Power |-> "OFF"]

\* C29: after the watcher has handled a change of a status file, the cache
\* entry of the component equals the filtered States map the file holds then,
\* also when that map is empty.
C29_EntryRebuiltOnEveryChange ==
    [][(/\ loaded'.n # loaded.n
        /\ loaded'.phase \in {"event", "poll"}
        /\ loaded'.content.wellFormed)
          => Entry(ComponentName(loaded.name))' = StateKeysOf(loaded'.content.states)]_vars

\* C30: the watcher waits for events or polls only after its initial loop has
\* loaded every file listed at startup: each is in the cache when it had
\* states to store, and no event or poll is handled before.
Storable(content) ==
    content.wellFormed /\ DOMAIN content.states \ BookkeepingKeys # {}
C30_ScanBeforeWaiting ==
    (watcherPc \in {"watching", "polling"} \/ loaded.phase \in {"event", "poll"})
        => /\ DOMAIN scanned = globbed
           /\ \A name \in globbed :
                  Storable(scanned[name])
                      => ComponentName(name) \in DOMAIN heap[component_states]
C30_Witness ==
    /\ Cardinality(globbed) = 2
    /\ watcherPc = "watching"
    /\ loaded.phase = "event"

\* C31: the watcher polls exactly when its event-driven setup failed (fd < 0,
\* wd < 0 or an exception) and handles events exactly when the setup worked;
\* files are loaded on events only by the event loop and on polls only by the
\* poller; the loop it entered is never left; and every matching file written
\* while a loop runs is eventually loaded again by the watcher.
C31_OneStrategyForever ==
    /\ [](watcherPc = "polling" <=> setup = "failed")
    /\ [](watcherPc = "watching" <=> setup = "watching")
    /\ [][(loaded' # loaded /\ loaded'.phase # "scan")
             => loaded'.phase = (IF setup = "failed" THEN "poll" ELSE "event")]_vars
    /\ [][(setup # "none") => (setup' = setup /\ watcherPc' = watcherPc)]_vars
    /\ \A name \in Matching : (name \in dirty) ~> (name \notin dirty)
C31_Witness ==
    /\ watcherPc = "polling"
    /\ setup = "failed"
    /\ writes = MaxWrites
    /\ loaded.phase = "poll"
    /\ loaded.name \in DOMAIN file_mtimes
    /\ file_mtimes[loaded.name] > 1
    /\ loaded.content = statusDir[loaded.name].content
    /\ dirty = {}

\* C32: when the poller looks at a file, it loads the file if and only if
\* the file's modification time is not the one it recorded for the file (or
\* it has recorded none); it then records the time it saw; a file it passes
\* over leaves the cache and the recorded times as they were.
C32_PollerLoadsOnlyChangedFiles ==
    [][(watcherPc = "polling" /\ (polled' # polled \/ loaded' # loaded))
          => /\ (loaded' # loaded) <=>
                    (IF polled' \in DOMAIN file_mtimes
                     THEN file_mtimes[polled'] # statusDir[polled'].mtime
                     ELSE TRUE)
             /\ (loaded' # loaded) =>
                    /\ loaded'.name = polled'
                    /\ loaded'.phase = "poll"
                    /\ loaded'.content = statusDir[polled'].content
             /\ (loaded' = loaded) =>
                    (CacheValue' = CacheValue /\ heap' = heap /\ file_mtimes' = file_mtimes)
             /\ file_mtimes'[polled'] = statusDir[polled'].mtime]_vars
\* the poller has loaded one file and then passed over the other, which it
\* had loaded before
C32_Witness ==
    /\ watcherPc = "polling"
    /\ loaded.phase = "poll"
    /\ polled # loaded.name
    /\ polled \in DOMAIN file_mtimes
    /\ file_mtimes[polled] = statusDir[polled].mtime
    /\ loaded.name \in dirty

\* ------------------------------------------------------------------------
\* SpecLutron: the sessions to the lighting controller: the persistent
\* listener (lutron_listener_thread, as main() starts it when
\* LUTRON_PERSISTENT is set) and the one-shot query_lutron_levels
\* ------------------------------------------------------------------------
\* A socket object is `created' by socket.socket(), `connected' by connect()
\* and `closed' by close() or by the runtime once nothing refers to it.
\* The listener never calls close(): its sockets are referred to by the local
\* variable sock and, after connect() raised, by the traceback the thread keeps
\* of the exception it caught last (connect is a Python-level method whose
\* frame holds the socket; recv and send are not).
NewSocket(owner) == [state |-> "created", owner |-> owner]
Open(i) == socks[i].state # "closed"
Referenced(i) == i = lsock \/ i = exc_tb \/ (query.pc = "running" /\ query.sock = i)

besideLutron == <<threadVars, cmdVars, tailVars, wsVars, frameVars, bootVars, watchVars,
                  haVars, syncVars,
    clientVars>>

\* the lines the controller sends: of a line the model keeps whether it starts
\* with ~OUTPUT, the number of its comma-separated parts, parts[1] and parts[3]
OutputLine(parts, addr, level) ==
    [output |-> TRUE, parts |-> parts, addr |-> addr, level |-> level]
Prompt == [output |-> FALSE, parts |-> 1, addr |-> <<>>, level |-> <<>>]
ControllerLines ==
    {Prompt,
     OutputLine(3, <<"1", "4">>, <<>>),
     OutputLine(4, <<"1", "4">>, <<"7", "5", ".", "0", "0">>),
     OutputLine(4, <<"1", "4">>, <<"0">>),
     OutputLine(4, <<"1", "4">>, <<"x">>),
     OutputLine(4, <<"9", "9">>, <<"7", "5", ".", "0", "0">>)}

\* line.startswith('~OUTPUT,'), len(parts) >= 4 and float(parts[3]) succeeds
IsLevelLine(line) == line.output /\ line.parts >= 4 /\ IsFloatText(line.level)

\* the address map the listener reads from the database when it starts
\* ({} when the database cannot be read)
ListenerMap == IF dbUp THEN AddressMap(db, EmptyDict) ELSE EmptyDict

\* the listener handles one line of its buffer
listener_line(h, ll, address_map, line) ==
    IF IsLevelLine(line) /\ line.addr \in DOMAIN address_map
    THEN LET info == address_map[line.addr]
             level == FloatOf(line.level)
             data == [address |-> line.addr, zone |-> info.zone, name |-> info.name,
                      level |-> level, is_on |-> IsOn(level)]
         IN  StoreLight(Alloc(h, data), ll, LightKey(info.zone, info.name), NewId(h))
    ELSE h

\* lines 646-667: the address map is loaded, the reconnect loop is entered
lutron_start ==
    /\ lutPc = "start"
    /\ lutPc' = "socket"
    /\ listener_map' = ListenerMap
    /\ UNCHANGED <<socks, lsock, exc_tb, waited, attempts, query>>
    /\ UNCHANGED <<cacheVars, besideLutron>>

\* sock = socket.socket(...); sock.settimeout(30): the name is bound to the
\* new object, or socket() raises and the name keeps what it held
lutron_socket(ok) ==
    /\ lutPc = "socket"
    /\ attempts < MaxAttempts
    /\ IF ok
       THEN /\ socks' = Append(socks, NewSocket("listener"))
            /\ lsock' = Len(socks) + 1
            /\ lutPc' = "connect"
            /\ UNCHANGED exc_tb
       ELSE /\ exc_tb' = 0
            /\ lutPc' = "delay"
            /\ UNCHANGED <<socks, lsock>>
    /\ UNCHANGED <<waited, attempts, query, listener_map>>
    /\ UNCHANGED <<cacheVars, besideLutron>>

\* sock.connect((LUTRON_HOST, LUTRON_PORT))
lutron_connect(ok) ==
    /\ lutPc = "connect"
    /\ attempts' = attempts + 1
    /\ waited' = FALSE
    /\ IF ok
       THEN /\ socks' = [socks EXCEPT ![lsock].state = "connected"]
            /\ lutPc' = "login"
            /\ UNCHANGED exc_tb
       ELSE /\ exc_tb' = lsock
            /\ lutPc' = "delay"
            /\ UNCHANGED socks
    /\ UNCHANGED <<lsock, query, listener_map>>
    /\ UNCHANGED <<cacheVars, besideLutron>>

\* the login exchange (recv, send, recv, send, recv) and the initial queries,
\* whose send errors are swallowed (except: pass)
lutron_login(ok, querySendFailed) ==
    /\ lutPc = "login"
    /\ querySendFailed => (ok /\ DOMAIN listener_map # {})
    /\ lutPc' = IF ok THEN "listening" ELSE "delay"
    /\ exc_tb' = IF ~ok \/ querySendFailed THEN 0 ELSE exc_tb
    /\ UNCHANGED <<socks, lsock, waited, attempts, query, listener_map>>
    /\ UNCHANGED <<cacheVars, besideLutron>>

\* data = sock.recv(1024) returned a complete line
lutron_data(line) ==
    /\ lutPc = "listening"
    /\ LockFree(lock)
    /\ Len(heap) < MaxObjs
    /\ heap' = listener_line(heap, light_levels, listener_map, line)
    /\ heap' # heap
    /\ \E now \in Times : last_update' = now
    /\ UNCHANGED <<component_states, light_levels, zone_states, lock>>
    /\ UNCHANGED lutVars
    /\ UNCHANGED besideLutron

\* the ways a session ends or idles: recv returns '' (the peer closed), recv
\* raises socket.timeout and the keepalive is sent or fails, recv raises
\* another error
SessionEvents == {"closed", "timeout", "timeout, send fails", "error"}
lutron_recv(ev) ==
    /\ lutPc = "listening"
    /\ ev = "timeout, send fails" => DOMAIN listener_map # {}
    /\ lutPc' = IF ev = "timeout" THEN "listening" ELSE "delay"
    /\ exc_tb' = IF ev = "closed" THEN exc_tb ELSE 0
    /\ UNCHANGED <<socks, lsock, waited, attempts, query, listener_map>>
    /\ UNCHANGED <<cacheVars, besideLutron>>

\* print "Reconnecting to Lutron in 5 seconds..."; time.sleep(5)
lutron_delay ==
    /\ lutPc = "delay"
    /\ lutPc' = "socket"
    /\ waited' = TRUE
    /\ UNCHANGED <<socks, lsock, exc_tb, attempts, query, listener_map>>
    /\ UNCHANGED <<cacheVars, besideLutron>>

\* the runtime closes a socket object nothing refers to any more
finalize(i) ==
    /\ Open(i)
    /\ ~Referenced(i)
    /\ socks' = [socks EXCEPT ![i].state = "closed"]
    /\ UNCHANGED <<lutPc, lsock, exc_tb, waited, attempts, query, listener_map>>
    /\ UNCHANGED <<cacheVars, besideLutron>>

\* for addr in addresses: the reply to each query is parsed; a reply that
\* cannot be read (recv raises, float() raises) is skipped
NoReply == [output |-> FALSE, parts |-> 0, addr |-> <<>>, level |-> <<>>]
Replies ==
    {NoReply,
     OutputLine(4, <<"1", "4">>, <<"7", "5", ".", "0", "0">>),
     OutputLine(4, <<"1", "4">>, <<"x">>)}
RECURSIVE QueryAll(_, _, _)
QueryAll(addresses, replies, levels) ==
    IF addresses = {} THEN levels
    ELSE LET addr == CHOOSE a \in addresses : TRUE
             line == replies[addr]
         IN  QueryAll(addresses \ {addr}, replies,
                      IF IsLevelLine(line)
                      THEN DictSet(levels, line.addr, FloatOf(line.level))
                      ELSE levels)

\* query_lutron_levels(addresses), lines 323-338: the socket, the connection
\* and the login; an exception in any of them leaves through the outer except
\* and returns levels (empty)
QueryOutcomes == {"socket fails", "connect fails", "login fails", "logged in"}
query_open(outcome) ==
    /\ query.pc # "running"
    /\ query.n < MaxRequests
    /\ socks' = CASE outcome = "socket fails" -> socks
                  [] outcome = "connect fails" -> Append(socks, NewSocket("query"))
                  [] OTHER -> Append(socks, [NewSocket("query") EXCEPT !.state = "connected"])
    /\ query' = [pc |-> IF outcome = "logged in" THEN "running" ELSE "returned",
                 sock |-> IF outcome = "socket fails" THEN 0 ELSE Len(socks) + 1,
                 levels |-> EmptyDict,
                 n |-> query.n + 1]
    /\ UNCHANGED <<lutPc, lsock, exc_tb, waited, attempts, listener_map>>
    /\ UNCHANGED <<cacheVars, besideLutron>>

\* lines 340-361: every address is queried, the socket is closed, levels is
\* returned
query_addresses(replies) ==
    /\ query.pc = "running"
    /\ socks' = [socks EXCEPT ![query.sock].state = "closed"]
    /\ query' = [query EXCEPT !.pc = "returned",
                              !.levels = QueryAll(DOMAIN replies, replies, EmptyDict)]
    /\ UNCHANGED <<lutPc, lsock, exc_tb, waited, attempts, listener_map>>
    /\ UNCHANGED <<cacheVars, besideLutron>>

ListenerStarts == lutron_start
ListenerOpensSocket == \E ok \in BOOLEAN : lutron_socket(ok)
ListenerConnects == \E ok \in BOOLEAN : lutron_connect(ok)
ListenerLogsIn == \E ok, querySendFailed \in BOOLEAN : lutron_login(ok, querySendFailed)
ListenerGetsData == \E line \in ControllerLines : lutron_data(line)
ListenerSessionEvent == \E ev \in SessionEvents : lutron_recv(ev)
ListenerDelays == lutron_delay
RuntimeFinalizes == \E i \in 1..Len(socks) : finalize(i)
QueryOpens == \E outcome \in QueryOutcomes : query_open(outcome)
QueryAsks == \E replies \in [DOMAIN ListenerMap -> Replies] : query_addresses(replies)
InitLutronSpec ==
    /\ InitCache /\ InitThreads /\ InitCommand /\ InitTailer
    /\ InitWs /\ IdleCodec /\ Running /\ WatcherIdle /\ EntitiesIdle /\ SyncIdle
    /\ ClientIdle
    /\ SAVANT_UIS_PORT = FallbackPort
    /\ avahi = CommandFailed
    /\ lutPc = "start"
    /\ socks = <<>>
    /\ lsock = 0
    /\ exc_tb = 0
    /\ waited = FALSE
    /\ attempts = 0
    /\ query = NoQuery
    /\ listener_map = EmptyDict
NextLutron ==
    \/ ListenerStarts
    \/ ListenerOpensSocket
    \/ ListenerConnects
    \/ ListenerLogsIn
    \/ ListenerGetsData
    \/ ListenerSessionEvent
    \/ ListenerDelays
    \/ RuntimeFinalizes
    \/ QueryOpens
    \/ QueryAsks
SpecLutron == InitLutronSpec /\ [][NextLutron]_vars

ListenerSockets == {i \in 1..Len(socks) : socks[i].owner = "listener"}

\* C22: in the persistent listener, when a connection is attempted every
\* socket of an earlier session is closed and, but for the first attempt, the
\* 5 s delay has passed; the listener never ends; at most one of its sessions
\* is open at any time.
C22_FailedSessionClosedBeforeRetry ==
    /\ [][(attempts' = attempts + 1)
             => /\ \A i \in ListenerSockets \ {lsock} : ~Open(i)
                /\ attempts > 0 => waited]_vars
    /\ [][(lutPc # "start") => lutPc' \in {"socket", "connect", "login", "listening",
                                             "delay"}]_vars
    /\ [](Cardinality({i \in ListenerSockets : socks[i].state = "connected"}) <= 1)

\* C23: when query_lutron_levels has returned, the session it opened is
\* closed, whether it returned normally or after an error.
C23_QueryClosesItsSession ==
    (query.pc = "returned" /\ query.sock # 0) => socks[query.sock].state # "connected"

\* C24: every message handed to the WebSocket broadcast is an object with
\* exactly the fields type, data and timestamp, and its type is zone_state or
\* light_state.
C24_BroadcastMessageShape ==
    \A i \in 1..Len(broadcasts) :
        /\ DOMAIN broadcasts[i].message = {"type", "data", "timestamp"}
        /\ broadcasts[i].message.type \in {"zone_state", "light_state"}
C24_Witness ==
    /\ \E i \in 1..Len(broadcasts) : broadcasts[i].message.type = "zone_state"
    /\ \E i \in 1..Len(broadcasts) : broadcasts[i].message.type = "light_state"

\* ------------------------------------------------------------------------
\* SpecLight: the Home Assistant light entity (light.py, SavantLight)
\* ------------------------------------------------------------------------
besideEntities == <<cacheVars, threadVars, cmdVars, tailVars, wsVars, frameVars, bootVars,
                    watchVars, lutVars, syncVars,
    clientVars>>

\* str(n) of an integer, as its characters
DigitChar(d) == CHOOSE c \in Digits : DigitValue(c) = d
RECURSIVE StrNat(_)
StrNat(n) == IF n < 10 THEN <<DigitChar(n)>> ELSE Append(StrNat(n \div 10), DigitChar(n % 10))
Str(n) == IF n < 0 THEN <<"-">> \o StrNat(0 - n) ELSE StrNat(n)

\* round(n / d) of Python 3 for n >= 0, d > 0: to the nearest integer, a tie
\* to the even one
Round(n, d) ==
    LET q == n \div d
        r == n % d
    IN  IF 2 * r < d THEN q
        ELSE IF 2 * r > d THEN q + 1
        ELSE IF q % 2 = 0 THEN q ELSE q + 1

\* HA brightness runs from 0 to 255
FullBrightness == 255
Brightnesses == 0..FullBrightness

\* a conversion that cuts the fraction off: int(brightness * 100 / 255)
dimmer_level_truncated(brightness) == (brightness * 100) \div FullBrightness

\* dimmer_level = round(brightness * 100 / 255)
dimmer_level(brightness) == Round(brightness * 100, FullBrightness)

\* kwargs of turn_on: with or without ATTR_BRIGHTNESS
NoKwargs == <<>>
Kwargs == {NoKwargs} \cup {[brightness |-> b] : b \in Brightnesses}

\* the call is noted; n tells one call from the next
Noted(method, arguments) == [n |-> 1 - haIn.n, method |-> method, arguments |-> arguments]

\* SavantLight.turn_on(**kwargs)
light_turn_on(kwargs) ==
    /\ haIn' = Noted("turn_on", kwargs)
    /\ LET brightness == DictGet(kwargs, "brightness", FullBrightness)
       IN  IF light.is_dimmer
           THEN /\ haSent' = [command |-> "DimmerSet",
                              arguments |-> [DimmerLevel |-> Str(dimmer_level(brightness))]]
                /\ light' = [light EXCEPT !.brightness = brightness, !.is_on = TRUE]
           ELSE /\ haSent' = [command |-> "SwitchOn", arguments |-> <<>>]
                /\ light' = [light EXCEPT !.is_on = TRUE]
    /\ UNCHANGED player
    /\ UNCHANGED besideEntities

\* SavantLight.turn_off(**kwargs)
light_turn_off ==
    /\ haIn' = Noted("turn_off", NoKwargs)
    /\ IF light.is_dimmer
       THEN /\ haSent' = [command |-> "DimmerSet",
                          arguments |-> [DimmerLevel |-> <<"0">>]]
            /\ light' = [light EXCEPT !.brightness = 0, !.is_on = FALSE]
       ELSE /\ haSent' = [command |-> "SwitchOff", arguments |-> <<>>]
            /\ light' = [light EXCEPT !.is_on = FALSE]
    /\ UNCHANGED player
    /\ UNCHANGED besideEntities

LightTurnsOn == \E kwargs \in Kwargs : light_turn_on(kwargs)
LightTurnsOff == light_turn_off
InitLightSpec ==
    /\ InitCache /\ InitThreads /\ InitCommand /\ InitTailer
    /\ InitWs /\ IdleCodec /\ Running /\ WatcherIdle /\ ListenerDisabled /\ SyncIdle
    /\ ClientIdle
    /\ SAVANT_UIS_PORT = FallbackPort
    /\ avahi = CommandFailed
    /\ Len(db) = 1
    /\ light \in {NewLight(TRUE), NewLight(FALSE)}
    /\ player = NewPlayer(<<>>)
    /\ haSent = NoCommand
    /\ haIn = NoCall
NextLight == LightTurnsOn \/ LightTurnsOff
SpecLight == InitLightSpec /\ [][NextLight]_vars

\* C26: the level a dimmer is sent for a brightness in 0..255 lies in 0..100
\* and is brightness*100/255 rounded (0, 128, 255 give 0, 50, 100); the
\* conversion never decreases as the brightness grows, and it rises by at most
\* one level per brightness step, so that every level 0..100 has its block of
\* brightness values and the blocks lie in the order of the levels (the
\* inverse mapping is monotonic).
C26_DimmerConversion ==
    /\ (haIn.method = "turn_on" /\ light.is_dimmer) =>
           LET b == light.brightness
               level == IntOf(haSent.arguments.DimmerLevel)
           IN  /\ level \in 0..100
               /\ 2 * (100 * b - FullBrightness * level) <= FullBrightness
               /\ 2 * (FullBrightness * level - 100 * b) <= FullBrightness
               /\ b = 0 => level = 0
               /\ b = 128 => level = 50
               /\ b = FullBrightness => level = 100
    /\ dimmer_level(0) = 0
    /\ dimmer_level(FullBrightness) = 100
    /\ \A b \in Brightnesses \ {FullBrightness} :
           /\ dimmer_level(b) <= dimmer_level(b + 1)
           /\ dimmer_level(b + 1) <= dimmer_level(b) + 1
C26_Witness ==
    /\ haIn.method = "turn_on"
    /\ light.is_dimmer
    /\ light.brightness = 128
    /\ haSent.arguments.DimmerLevel = <<"5", "0">>

\* ------------------------------------------------------------------------
\* SpecPlayer: the Home Assistant media player entity (media_player.py,
\* SavantMediaPlayer) of the zone Den
\* ------------------------------------------------------------------------
\* an Optional value: None, or the value
None == <<>>
Some(v) == <<v>>

\* a volume level is kept in units of 1/400, the common denominator of
\* vol_val / 100.0 and (vol_val + 80) / 80.0
One == 5 * 80

\* a clamp that forgets the lower end: min(1.0, x)
ClampAbove(x) == IF x > One THEN One ELSE x

\* max(0.0, min(1.0, x))
Clamp(x) == IF x < 0 THEN 0 ELSE IF x > One THEN One ELSE x

\* vol_val / 100.0 and (vol_val + 80) / 80.0, clamped
PercentLevel(vol_val) == Clamp(4 * vol_val)
DbLevel(vol_val) == Clamp(5 * (vol_val + 80))

\* str(value).upper() on the values of the model
Upper(text) == IF text = "on" THEN "ON" ELSE text

\* 'power' in key.lower()
NamesPower(key) == key \in {"Power"}

\* the entity's zone and configuration: one service (component AppleTV) and
\* the volumeControl descriptor of GET /zones, if the zone has one
PlayerZone == "Den"
VolumeControl(scale) ==
    [stateComponent |-> "Receiver", volumeStateKey |-> "Volume", muteStateKey |-> "Mute"]
        @@ scale
VolumeControls == {None, VolumeControl(<<>>), VolumeControl([volumeScale |-> "dB"])}
HasVolumeControl(p) == DOMAIN p.volume_control # {}
PlayerComponents(p) ==
    {"AppleTV"} \cup (IF HasVolumeControl(p) THEN {p.volume_control.stateComponent} ELSE {})

\* a fallback rule turned round: the component state wins when it has a value
PreferComponent(zoneValue, componentValue) ==
    IF componentValue # None THEN componentValue ELSE zoneValue

\* `if 'power' in zone_state: ... else: <component state>', and `if volume is
\* None and ...' / `if muted is None and ...': the component state is used
\* only when the zone state gave no value
Prefer(zoneValue, componentValue) ==
    IF zoneValue # None THEN zoneValue ELSE componentValue

\* SavantMediaPlayer.update() on what get_state() and get_zone_states()
\* returned (the zone states of the model carry no source)
PlayerUpdate(p, fetched, zones) ==
    LET zone_state == DictGet(zones, PlayerZone, EmptyDict)
        vc == p.volume_control
        hasStates == HasVolumeControl(p) /\ vc.stateComponent \in DOMAIN fetched
        states == IF hasStates THEN fetched[vc.stateComponent] ELSE EmptyDict
        zonePower == IF "power" \in DOMAIN zone_state
                     THEN Some(zone_state.power = "ON") ELSE None
        componentPower ==
            Some(\E c \in PlayerComponents(p) \cap DOMAIN fetched :
                     \E key \in DOMAIN fetched[c] :
                         NamesPower(key) /\ Upper(fetched[c][key]) = "ON")
        zoneVolume == IF "volume" \in DOMAIN zone_state
                      THEN Some(PercentLevel(zone_state.volume)) ELSE None
        componentVolume ==
            IF vc.volumeStateKey \in DOMAIN states /\ IsIntText(states[vc.volumeStateKey])
            THEN IF DictGet(vc, "volumeScale", "percent") = "dB"
                 THEN Some(DbLevel(IntOf(states[vc.volumeStateKey])))
                 ELSE Some(PercentLevel(IntOf(states[vc.volumeStateKey])))
            ELSE None
        zoneMute == IF "mute" \in DOMAIN zone_state
                    THEN Some(zone_state.mute = "ON") ELSE None
        componentMute ==
            IF vc.muteStateKey \in DOMAIN states
            THEN Some(Upper(states[vc.muteStateKey]) = "ON")
            ELSE None
        power_on == Prefer(zonePower, componentPower)[1]
        volume == Prefer(zoneVolume, IF hasStates THEN componentVolume ELSE None)
        muted == Prefer(zoneMute, IF hasStates THEN componentMute ELSE None)
    IN  [p EXCEPT !.state = IF power_on THEN "on" ELSE "off",
                  !.volume_level = IF volume # None THEN volume ELSE @,
                  !.is_muted = IF muted # None THEN muted ELSE @]

\* SavantMediaPlayer._handle_ws_update(event_type, data)
PlayerWsUpdate(p, event_type, data) ==
    IF event_type # "zone_state" \/ DictGet(data, "zone", "") # PlayerZone THEN p
    ELSE [p EXCEPT !.state = IF "power" \in DOMAIN data
                             THEN (IF data.power = "ON" THEN "on" ELSE "off") ELSE @,
                   !.volume_level = IF "volume" \in DOMAIN data
                                    THEN Some(PercentLevel(data.volume)) ELSE @,
                   !.is_muted = IF "mute" \in DOMAIN data
                                THEN Some(data.mute = "ON") ELSE @]

\* int(volume * 100) and int(-80 + (volume * 80)), volume in units of 1/400;
\* int() cuts towards zero
PercentVolume(volume) == (volume * 100) \div One
DbVolume(volume) == 0 - (((One - volume) * 80) \div One)

\* the dictionaries of the model
DictUnion(a, b) == [k \in DOMAIN a \cup DOMAIN b |-> IF k \in DOMAIN a THEN a[k] ELSE b[k]]
Optional(key, values) == {None} \cup {DictSet(EmptyDict, key, v) : v \in values}

\* what the relay holds for a zone: the tailer stores ON/OFF and integers
ZoneStateDicts ==
    {DictUnion(DictUnion(power, volume), mute) :
        power \in Optional("power", {"ON", "OFF"}),
        volume \in Optional("volume", {0 - 5, 0, 100}),
        mute \in Optional("mute", {"OFF"})}
\* what a status file of the receiver holds: values as their text
ComponentStateDicts ==
    {DictUnion(DictUnion(power, volume), mute) :
        power \in Optional("Power", {"on"}),
        volume \in Optional("Volume", {<<"-", "8", "0">>, <<"0">>, <<"1", "0", "0">>,
                                       <<"4", ".", "5">>}),
        mute \in Optional("Mute", {"ON"})}
AllStates == {EmptyDict} \cup {[Receiver |-> m] : m \in ComponentStateDicts}
ZoneStates == {EmptyDict} \cup {[Den |-> m] : m \in ZoneStateDicts}
WsEvents ==
    {[type |-> "zone_state", data |-> DictUnion([zone |-> PlayerZone], m)] :
        m \in ZoneStateDicts}
    \cup {[type |-> "zone_state", data |-> [zone |-> "Kitchen", volume |-> 100]],
          [type |-> "light_state", data |-> [zone |-> PlayerZone, volume |-> 100]]}
\* volume levels Home Assistant may pass whose products with 100 and 80 are
\* exact in binary floating point: 0.0, 0.25, 0.5, 0.75, 1.0
VolumeLevels == {0, 100, 200, 300, One}

Called(method, arguments) == [n |-> haIn.n + 1, method |-> method, arguments |-> arguments]

player_update(fetched, zones) ==
    /\ haIn.n < MaxCalls
    /\ haIn' = Called("update", [all_states |-> fetched, zone_states |-> zones])
    /\ player' = PlayerUpdate(player, fetched, zones)
    /\ UNCHANGED <<light, haSent>>
    /\ UNCHANGED besideEntities

player_ws_update(event) ==
    /\ haIn.n < MaxCalls
    /\ haIn' = Called("_handle_ws_update", event)
    /\ player' = PlayerWsUpdate(player, event.type, event.data)
    /\ UNCHANGED <<light, haSent>>
    /\ UNCHANGED besideEntities

\* SavantMediaPlayer.set_volume_level(volume)
player_set_volume_level(volume) ==
    /\ haIn.n < MaxCalls
    /\ haIn' = Called("set_volume_level", [volume |-> volume])
    /\ IF ~HasVolumeControl(player)
       THEN UNCHANGED <<player, haSent>>
       ELSE /\ haSent' =
                  [command |-> "SetVolume",
                   arguments |->
                       [VolumeValue |->
                           Str(IF DictGet(player.volume_control, "volumeScale", "percent")
                                      = "dB"
                               THEN DbVolume(volume) ELSE PercentVolume(volume))]]
            /\ player' = [player EXCEPT !.volume_level = Some(volume)]
    /\ UNCHANGED light
    /\ UNCHANGED besideEntities

PlayerUpdates ==
    \E fetched \in AllStates : \E zones \in ZoneStates :
        player_update(fetched, zones)
PlayerHearsEvent == \E event \in WsEvents : player_ws_update(event)
PlayerSetsVolume == \E volume \in VolumeLevels : player_set_volume_level(volume)
InitPlayerSpec ==
    /\ InitCache /\ InitThreads /\ InitCommand /\ InitTailer
    /\ InitWs /\ IdleCodec /\ Running /\ WatcherIdle /\ ListenerDisabled /\ SyncIdle
    /\ ClientIdle
    /\ SAVANT_UIS_PORT = FallbackPort
    /\ avahi = CommandFailed
    /\ Len(db) = 1
    /\ light = NewLight(TRUE)
    /\ player \in {NewPlayer(vc) : vc \in VolumeControls}
    /\ haSent = NoCommand
    /\ haIn = NoCall
NextPlayer == PlayerUpdates \/ PlayerHearsEvent \/ PlayerSetsVolume
SpecPlayer == InitPlayerSpec /\ [][NextPlayer]_vars

\* what the last update() was given: the zone's ZoneState, and the
\* ComponentState of the volume control's state component if the entity has one
GivenZoneState == DictGet(haIn.arguments.zone_states, PlayerZone, EmptyDict)
GivenComponentState ==
    IF HasVolumeControl(player)
    THEN DictGet(haIn.arguments.all_states, player.volume_control.stateComponent, EmptyDict)
    ELSE EmptyDict
IsDb == DictGet(player.volume_control, "volumeScale", "percent") = "dB"

\* C25: after the media player's update, power, volume and mute each come
\* from the zone's ZoneState whenever ZoneState has the key, whatever the
\* ComponentState says; when ZoneState lacks the key, the value comes from the
\* ComponentState (power: on exactly when a power state is ON; volume and
\* mute: the component's value when it has a usable one)
C25_ZoneStateFirst ==
    (haIn.method = "update") =>
        /\ ("power" \in DOMAIN GivenZoneState) =>
               (player.state = "on" <=> GivenZoneState.power = "ON")
        /\ ("volume" \in DOMAIN GivenZoneState) =>
               player.volume_level = Some(PercentLevel(GivenZoneState.volume))
        /\ ("mute" \in DOMAIN GivenZoneState) =>
               player.is_muted = Some(GivenZoneState.mute = "ON")
        /\ ("power" \notin DOMAIN GivenZoneState) =>
               (player.state = "on" <=>
                    /\ "Power" \in DOMAIN GivenComponentState
                    /\ GivenComponentState.Power \in {"on", "ON"})
        /\ ("volume" \notin DOMAIN GivenZoneState /\ "Volume" \in DOMAIN GivenComponentState
                /\ IsIntText(GivenComponentState.Volume)) =>
               player.volume_level =
                   Some(IF IsDb THEN DbLevel(IntOf(GivenComponentState.Volume))
                        ELSE PercentLevel(IntOf(GivenComponentState.Volume)))
        /\ ("mute" \notin DOMAIN GivenZoneState /\ "Mute" \in DOMAIN GivenComponentState) =>
               player.is_muted = Some(GivenComponentState.Mute = "ON")

\* an update where ZoneState says the zone is off and not muted while the
\* receiver's files say on and muted, and only the files have a volume
C25_Witness ==
    /\ haIn.method = "update"
    /\ DOMAIN GivenZoneState = {"power", "mute"}
    /\ GivenZoneState.power = "OFF"
    /\ DOMAIN GivenComponentState = {"Power", "Volume", "Mute"}
    /\ GivenComponentState.Volume = <<"1", "0", "0">>
    /\ player.state = "off"
    /\ player.is_muted = Some(FALSE)
    /\ player.volume_level = Some(One)

\* C27: the volume level of the entity always lies between 0.0 and 1.0; a
\* device value of 0 on the percent scale gives 0.0 and 100 gives 1.0, -80 on
\* the dB scale gives 0.0 and 0 gives 1.0, whether it arrives by update or by
\* a WebSocket event; and set_volume_level sends 0 and 100 for 0.0 and 1.0 on
\* the percent scale, -80 and 0 on the dB scale
C27_VolumeConversion ==
    /\ player.volume_level # None => player.volume_level[1] \in 0..One
    /\ (haIn.method = "update" /\ "volume" \in DOMAIN GivenZoneState) =>
           /\ GivenZoneState.volume = 0 => player.volume_level = Some(0)
           /\ GivenZoneState.volume = 100 => player.volume_level = Some(One)
    /\ (haIn.method = "update" /\ "volume" \notin DOMAIN GivenZoneState
            /\ "Volume" \in DOMAIN GivenComponentState) =>
           /\ (~IsDb /\ GivenComponentState.Volume = <<"0">>) =>
                  player.volume_level = Some(0)
           /\ (~IsDb /\ GivenComponentState.Volume = <<"1", "0", "0">>) =>
                  player.volume_level = Some(One)
           /\ (IsDb /\ GivenComponentState.Volume = <<"-", "8", "0">>) =>
                  player.volume_level = Some(0)
           /\ (IsDb /\ GivenComponentState.Volume = <<"0">>) =>
                  player.volume_level = Some(One)
    /\ (haIn.method = "_handle_ws_update" /\ haIn.arguments.type = "zone_state"
            /\ haIn.arguments.data.zone = PlayerZone
            /\ "volume" \in DOMAIN haIn.arguments.data) =>
           /\ haIn.arguments.data.volume = 0 => player.volume_level = Some(0)
           /\ haIn.arguments.data.volume = 100 => player.volume_level = Some(One)
    /\ (haIn.method = "set_volume_level" /\ HasVolumeControl(player)) =>
           /\ haSent.command = "SetVolume"
           /\ player.volume_level = Some(haIn.arguments.volume)
           /\ (~IsDb /\ haIn.arguments.volume = 0) =>
                  haSent.arguments.VolumeValue = <<"0">>
           /\ (~IsDb /\ haIn.arguments.volume = One) =>
                  haSent.arguments.VolumeValue = <<"1", "0", "0">>
           /\ (IsDb /\ haIn.arguments.volume = 0) =>
                  haSent.arguments.VolumeValue = <<"-", "8", "0">>
           /\ (IsDb /\ haIn.arguments.volume = One) =>
                  haSent.arguments.VolumeValue = <<"0">>

\* an update with a ZoneState volume below the scale: the level is 0.0
C27_Witness ==
    /\ haIn.method = "update"
    /\ "volume" \in DOMAIN GivenZoneState
    /\ GivenZoneState.volume < 0
    /\ player.volume_level = Some(0)

\* ------------------------------------------------------------------------
\* SpecSync: the threads of the relay between their lock and socket calls:
\* the workers of the WebSocket connections (_handle_client), the log tailer
\* (a StateCache update, then broadcast), and the watcher and the HTTP
\* handler (StateCache calls only)
\* ------------------------------------------------------------------------
besideSync == <<threadVars, cmdVars, tailVars, frameVars, bootVars, watchVars, lutVars,
                haVars,
    clientVars>>
cacheData == <<heap, component_states, light_levels, zone_states, last_update>>
Goto(t, where) == tpc' = [tpc EXCEPT ![t] = where]

\* a StateCache method that returns with the lock still held
HeldByCaller(t) == t

\* `with self.lock:' of a StateCache method is left: the lock is free
HeldAfterCall(t) == NoThread

\* a thread reaches a StateCache method (lines 50-84): for the tailer this is
\* update_zone_state or update_light of a log event
cache_call(t) ==
    /\ tpc[t] = "idle"
    /\ Goto(t, "cache_wait")
    /\ UNCHANGED <<lock, clients_lock, bc, sending, raised, removed, clients, conn>>
    /\ UNCHANGED <<cacheData, wsEvents, cast, met, besideSync>>

\* with self.lock: entered
cache_acquire(t) ==
    /\ tpc[t] = "cache_wait"
    /\ LockFree(lock)
    /\ lock' = t
    /\ Goto(t, "cache_held")
    /\ UNCHANGED <<clients_lock, bc, sending, raised, removed, clients, conn>>
    /\ UNCHANGED <<cacheData, wsEvents, cast, met, besideSync>>

\* the method returns; the tailer goes on to broadcast_state_change
cache_return(t) ==
    /\ tpc[t] = "cache_held"
    /\ lock' = HeldAfterCall(t)
    /\ Goto(t, IF t = TailerThread THEN "broadcast" ELSE "idle")
    /\ UNCHANGED <<clients_lock, bc, sending, raised, removed, clients, conn>>
    /\ UNCHANGED <<cacheData, wsEvents, cast, met, besideSync>>

\* broadcast, line 279: with self.clients_lock entered, the loop over
\* self.clients begins
broadcast_acquire ==
    /\ tpc[TailerThread] = "broadcast"
    /\ clients_lock = NoThread
    /\ clients_lock' = TailerThread
    /\ bc' = [todo |-> clients, dead |-> <<>>]
    /\ Goto(TailerThread, "bc_loop")
    /\ UNCHANGED <<lock, sending, raised, removed, clients, conn>>
    /\ UNCHANGED <<cacheData, wsEvents, cast, met, besideSync>>

\* self._send_frame(client, message): client_socket.send is entered
broadcast_send ==
    /\ tpc[TailerThread] = "bc_loop"
    /\ bc.todo # <<>>
    /\ sending' = sending \cup {<<TailerThread, Head(bc.todo)>>}
    /\ Goto(TailerThread, "bc_send")
    /\ UNCHANGED <<lock, clients_lock, bc, raised, removed, clients, conn>>
    /\ UNCHANGED <<cacheData, wsEvents, cast, met, besideSync>>

\* send returns or raises (it raises on a closed socket); a client whose send
\* raised goes to dead_clients
broadcast_sent(ok) ==
    /\ tpc[TailerThread] = "bc_send"
    /\ ~conn[Head(bc.todo)].open => ~ok
    /\ sending' = sending \ {<<TailerThread, Head(bc.todo)>>}
    /\ bc' = [todo |-> Tail(bc.todo),
              dead |-> IF ok THEN bc.dead ELSE Append(bc.dead, Head(bc.todo))]
    /\ Goto(TailerThread, "bc_loop")
    /\ UNCHANGED <<lock, clients_lock, raised, removed, clients, conn>>
    /\ UNCHANGED <<cacheData, wsEvents, cast, met, besideSync>>

\* lines 289-294: every dead client is removed from the list and closed
broadcast_cleanup ==
    /\ tpc[TailerThread] = "bc_loop"
    /\ bc.todo = <<>>
    /\ clients' = SelectSeq(clients, LAMBDA c : c \notin Range(bc.dead))
    /\ removed' = [c \in ConnIds |->
                     IF c \in Range(bc.dead) \cap Range(clients)
                     THEN removed[c] + 1 ELSE removed[c]]
    /\ raised' = raised \cup {<<"broadcast", c>> : c \in Range(bc.dead) \ Range(clients)}
    /\ conn' = [c \in ConnIds |->
                  IF c \in Range(bc.dead) THEN [conn[c] EXCEPT !.open = FALSE]
                  ELSE conn[c]]
    /\ Goto(TailerThread, "bc_done")
    /\ UNCHANGED <<lock, clients_lock, bc, sending>>
    /\ UNCHANGED <<cacheData, wsEvents, cast, met, besideSync>>

\* with self.clients_lock left: broadcast returns
broadcast_release ==
    /\ tpc[TailerThread] = "bc_done"
    /\ clients_lock' = NoThread
    /\ bc' = NoBroadcast
    /\ Goto(TailerThread, "idle")
    /\ UNCHANGED <<lock, sending, raised, removed, clients, conn>>
    /\ UNCHANGED <<cacheData, wsEvents, cast, met, besideSync>>

\* _server_loop accepts connection c and starts its worker
worker_start(c) ==
    /\ tpc[c] = "idle"
    /\ \A d \in ConnIds : d < c => tpc[d] # "idle"
    /\ conn' = [conn EXCEPT ![c].open = TRUE]
    /\ Goto(c, "handshake")
    /\ UNCHANGED <<lock, clients_lock, bc, sending, raised, removed, clients>>
    /\ UNCHANGED <<cacheData, wsEvents, cast, met, besideSync>>

\* lines 131-172: the upgrade request is accepted and answered, or the socket
\* is closed and the method returns, or recv or send raises; every way out
\* runs the finally block
HandshakeOutcomes == {"upgraded", "rejected", "raised"}
worker_handshake(c, outcome) ==
    /\ tpc[c] = "handshake"
    /\ conn' = [conn EXCEPT ![c].open = (outcome # "rejected"),
                            ![c].sent101 = (outcome = "upgraded")]
    /\ Goto(c, IF outcome = "upgraded" THEN "append" ELSE "finally")
    /\ UNCHANGED <<lock, clients_lock, bc, sending, raised, removed, clients>>
    /\ UNCHANGED <<cacheData, wsEvents, cast, met, besideSync>>

\* a thread enters `with self.clients_lock:' of _handle_client (line 175 or
\* line 246)
worker_acquire(c) ==
    /\ tpc[c] \in {"append", "finally"}
    /\ clients_lock = NoThread
    /\ clients_lock' = c
    /\ Goto(c, IF tpc[c] = "append" THEN "appending" ELSE "teardown")
    /\ UNCHANGED <<lock, bc, sending, raised, removed, clients, conn>>
    /\ UNCHANGED <<cacheData, wsEvents, cast, met, besideSync>>

\* self.clients.append(client_socket), and the lock is left
worker_append(c) ==
    /\ tpc[c] = "appending"
    /\ clients' = Append(clients, c)
    /\ clients_lock' = NoThread
    /\ Goto(c, "loop")
    /\ UNCHANGED <<lock, bc, sending, raised, removed, conn>>
    /\ UNCHANGED <<cacheData, wsEvents, cast, met, besideSync>>

\* one recv of the worker loop: a ping or a read timeout is answered with a
\* frame; a close frame, an empty read or an error leaves the loop (recv on
\* a socket broadcast has closed raises)
WorkerEvents == {"ping", "timeout", "close"}
worker_recv(c, ev) ==
    /\ tpc[c] = "loop"
    /\ ~conn[c].open => ev = "close"
    /\ Goto(c, IF ev = "close" THEN "finally" ELSE "send")
    /\ UNCHANGED <<lock, clients_lock, bc, sending, raised, removed, clients, conn>>
    /\ UNCHANGED <<cacheData, wsEvents, cast, met, besideSync>>

\* self._send_frame(client_socket, ...) of line 227 or 234: send is entered
worker_send(c) ==
    /\ tpc[c] = "send"
    /\ sending' = sending \cup {<<c, c>>}
    /\ Goto(c, "sending")
    /\ UNCHANGED <<lock, clients_lock, bc, raised, removed, clients, conn>>
    /\ UNCHANGED <<cacheData, wsEvents, cast, met, besideSync>>

\* send returns, or raises and the loop is left
worker_sent(c, ok) ==
    /\ tpc[c] = "sending"
    /\ ~conn[c].open => ~ok
    /\ sending' = sending \ {<<c, c>>}
    /\ Goto(c, IF ok THEN "loop" ELSE "finally")
    /\ UNCHANGED <<lock, clients_lock, bc, raised, removed, clients, conn>>
    /\ UNCHANGED <<cacheData, wsEvents, cast, met, besideSync>>

\* a teardown that removes without looking
InListOrNot(list, c) == TRUE

\* if client_socket in self.clients
InList(list, c) == c \in Range(list)

\* lines 246-248: the connection leaves the list if it is in it, and the lock
\* is left; list.remove of an absent socket raises ValueError, which leaves
\* the finally block before close
worker_teardown(c) ==
    /\ tpc[c] = "teardown"
    /\ clients_lock' = NoThread
    /\ IF ~InList(clients, c)
       THEN /\ Goto(c, "close")
            /\ UNCHANGED <<clients, removed, raised>>
       ELSE IF c \in Range(clients)
       THEN /\ clients' = Remove(clients, c)
            /\ removed' = [removed EXCEPT ![c] = @ + 1]
            /\ Goto(c, "close")
            /\ UNCHANGED raised
       ELSE /\ raised' = raised \cup {<<"worker", c>>}
            /\ Goto(c, "done")
            /\ UNCHANGED <<clients, removed>>
    /\ UNCHANGED <<lock, bc, sending, conn>>
    /\ UNCHANGED <<cacheData, wsEvents, cast, met, besideSync>>

\* client_socket.close() of the finally block
worker_close(c) ==
    /\ tpc[c] = "close"
    /\ conn' = [conn EXCEPT ![c].open = FALSE]
    /\ Goto(c, "done")
    /\ UNCHANGED <<lock, clients_lock, bc, sending, raised, removed, clients>>
    /\ UNCHANGED <<cacheData, wsEvents, cast, met, besideSync>>

CacheThreads == {TailerThread, WatcherThread, HttpThread}
CacheCalled == \E t \in CacheThreads : cache_call(t)
CacheAcquired == \E t \in CacheThreads : cache_acquire(t)
CacheReturned == \E t \in CacheThreads : cache_return(t)
BroadcastAcquires == broadcast_acquire
BroadcastSends == broadcast_send
BroadcastSent == \E ok \in BOOLEAN : broadcast_sent(ok)
BroadcastCleansUp == broadcast_cleanup
BroadcastReleases == broadcast_release
WorkerStarts == \E c \in ConnIds : worker_start(c)
WorkerHandshake == \E c \in ConnIds : \E outcome \in HandshakeOutcomes :
                       worker_handshake(c, outcome)
WorkerAcquires == \E c \in ConnIds : worker_acquire(c)
WorkerAppends == \E c \in ConnIds : worker_append(c)
WorkerReceives == \E c \in ConnIds : \E ev \in WorkerEvents : worker_recv(c, ev)
WorkerSends == \E c \in ConnIds : worker_send(c)
WorkerSent == \E c \in ConnIds : \E ok \in BOOLEAN : worker_sent(c, ok)
WorkerTearsDown == \E c \in ConnIds : worker_teardown(c)
WorkerCloses == \E c \in ConnIds : worker_close(c)
InitSyncSpec ==
    /\ InitCache /\ InitThreads /\ InitCommand /\ InitTailer /\ InitServer
    /\ SAVANT_UIS_PORT = FallbackPort
    /\ avahi = CommandFailed
    /\ Len(db) = 1
NextSync ==
    \/ CacheCalled
    \/ CacheAcquired
    \/ CacheReturned
    \/ BroadcastAcquires
    \/ BroadcastSends
    \/ BroadcastSent
    \/ BroadcastCleansUp
    \/ BroadcastReleases
    \/ WorkerStarts
    \/ WorkerHandshake
    \/ WorkerAcquires
    \/ WorkerAppends
    \/ WorkerReceives
    \/ WorkerSends
    \/ WorkerSent
    \/ WorkerTearsDown
    \/ WorkerCloses
SpecSync == InitSyncSpec /\ [][NextSync]_vars

\* where a thread is about to enter `with self.lock:' / `with
\* self.clients_lock:'
WaitsForCache(t) == tpc[t] = "cache_wait"
WaitsForClients(t) == tpc[t] \in {"broadcast", "append", "finally"}
Waits(t) == WaitsForCache(t) \/ WaitsForClients(t)

\* C33: no thread holds the StateCache lock and the client-list lock
\* together; a thread about to take one of them does not hold the other; and
\* whenever a thread waits for a lock that is taken, the thread holding that
\* lock is not itself waiting for a lock, so no cycle of waiting threads
\* exists.
C33_NoLockOrderCycle ==
    /\ \A t \in SyncThreads : ~(lock = t /\ clients_lock = t)
    /\ \A t \in SyncThreads : WaitsForClients(t) => lock # t
    /\ \A t \in SyncThreads : WaitsForCache(t) => clients_lock # t
    /\ \A t \in SyncThreads :
          /\ (WaitsForCache(t) /\ lock # NoThread) => ~Waits(lock)
          /\ (WaitsForClients(t) /\ clients_lock # NoThread) => ~Waits(clients_lock)
\* both locks are taken, by different threads, and a thread waits for each
C33_Witness ==
    /\ clients_lock = TailerThread
    /\ lock = HttpThread
    /\ tpc[WatcherThread] = "cache_wait"
    /\ \E c \in ConnIds : tpc[c] = "finally"

\* C38: at no time are two threads inside a send on the same connection.
C38_OneWriterPerConnection ==
    \A c \in ConnIds : Cardinality({t \in SyncThreads : <<t, c>> \in sending}) <= 1

\* C39: every connection of the broadcast list has an open socket and is in
\* the list once; no connection has left the list more than once; and no
\* list.remove has raised because the connection was already gone.
C39_RemovalRaceFree ==
    /\ \A i \in 1..Len(clients) :
          /\ conn[clients[i]].open
          /\ \A j \in 1..Len(clients) : clients[j] = clients[i] => j = i
    /\ \A c \in ConnIds : removed[c] <= 1
    /\ raised = {}
\* broadcast has removed and closed a connection whose worker has left its
\* loop and is about to enter its own teardown
C39_Witness ==
    \E c \in ConnIds :
        /\ tpc[TailerThread] = "bc_done"
        /\ c \in Range(bc.dead)
        /\ tpc[c] = "finally"
        /\ removed[c] = 1
        /\ ~conn[c].open

\* ---- the cache against what the clients have been told ----
\* the messages a client has received, in the order of their arrival
Received(c) == conn[c].outbox
\* the zone_state messages about a key of a zone, in the order of their broadcast
ZoneMessagesOf(zone, key) ==
    SelectSeq(broadcasts, LAMBDA b : /\ b.message.type = "zone_state"
                                     /\ b.message.data["zone"] = zone
                                     /\ key \in DOMAIN b.message.data)
LightMessages == SelectSeq(broadcasts, LAMBDA b : b.message.type = "light_state")
\* the line whose update is made and whose broadcast is still to come
Pending == IF tailerPc = "broadcast" THEN Decide(syslog[f_pos]) ELSE <<"none">>
PendingZone(zone, key) == Pending[1] = "zone" /\ Pending[2] = zone /\ Pending[3] = key
ZoneKeys == {"power", "mute", "volume"}
TailerBroadcastsNow == Len(broadcasts') = Len(broadcasts) + 1

\* C34: the cache is written before the message goes out. In the step that
\* sends a message the cache already holds what the message says (for a light:
\* the entry the tailer wrote, or one written after it). And in every state,
\* for every message a client has received, the cache holds for that zone and
\* key the value of the last message about them, or the value of a later line
\* whose message is still to come; the light entry named in a light message
\* is the one the tailer wrote last, with the level of the last message or
\* of the later line, or an entry written after it. So a snapshot copied
\* from the cache after the message arrived never shows an older value.
C34_MutationBeforeBroadcast ==
    /\ [][TailerBroadcastsNow =>
            LET m == Last(broadcasts').message
            IN  IF m.type = "zone_state"
                THEN \A k \in DOMAIN m.data \ {"zone"} :
                        /\ k \in DOMAIN ZoneDict(m.data["zone"])
                        /\ ZoneDict(m.data["zone"])[k] = m.data[k]
                ELSE /\ tailerKey \in DOMAIN heap[light_levels]
                     /\ heap[light_levels][tailerKey] >= stored
                     /\ heap[light_levels][tailerKey] = stored =>
                           /\ LightDict(heap, tailerKey).level = m.data.level
                           /\ LightDict(heap, tailerKey).is_on = m.data.is_on
                           /\ LightDict(heap, tailerKey).address = m.data.address]_vars
    /\ [](\A c \in ConnIds : \A i \in 1..Len(Received(c)) :
            LET m == Received(c)[i].message
            IN  IF m.type = "zone_state"
                THEN \A k \in DOMAIN m.data \ {"zone"} :
                        LET z == m.data["zone"]
                        IN  /\ k \in DOMAIN ZoneDict(z)
                            /\ ZoneDict(z)[k] = IF PendingZone(z, k) THEN Pending[4]
                                                ELSE Last(ZoneMessagesOf(z, k)).message.data[k]
                ELSE /\ stored # NoObj
                     /\ tailerKey \in DOMAIN heap[light_levels]
                     /\ heap[light_levels][tailerKey] >= stored
                     /\ heap[light_levels][tailerKey] = stored =>
                           LightDict(heap, tailerKey).level =
                               IF Pending[1] = "light" THEN Pending[3]
                               ELSE Last(LightMessages).message.data.level)
\* a client was told that the Den is on, and the cache already shows the later
\* PowerOff whose message is still to come
C34_Witness ==
    /\ tailerPc = "broadcast"
    /\ \E c \in ConnIds :
          /\ Len(Received(c)) = 1
          /\ Received(c)[1].message.type = "zone_state"
          /\ Received(c)[1].message.data["zone"] = "Den"
          /\ "power" \in DOMAIN Received(c)[1].message.data
          /\ Received(c)[1].message.data["power"] = "ON"
    /\ ZoneDict("Den")["power"] = "OFF"

\* the lines of the messages of a sequence
LinesOf(msgs) == [i \in 1..Len(msgs) |-> msgs[i].line]
Increasing(lines) == \A i, j \in 1..Len(lines) : i < j => lines[i] < lines[j]
\* the number of messages the handling of a line sends
Sends(i) ==
    LET todo == Decide(syslog[i])
    IN  IF todo[1] = "zone" \/ (todo[1] = "light" /\ i \in hadEntry) THEN 1 ELSE 0

\* C35: the tailer opens the log at its end and moves over the lines added
\* later one line at a time, never back and never skipping one; a line that
\* was in the log at the start is never read, updates nothing and is never
\* broadcast; every line handled so far has sent exactly the one message it
\* calls for (none if it is not a recognized event), and the messages were
\* sent in the order of their lines; every client receives its messages in
\* the order of their lines, and a client still connected has received every
\* message, in that order.
C35_NewLinesOnceInOrder ==
    /\ [][f_pos' # f_pos =>
            IF tailerPc = "start" THEN f_pos' = Len(syslog) /\ f_start' = f_pos'
            ELSE f_pos' = f_pos + 1 /\ f_pos < Len(syslog) /\ tailerPc = "reading"]_vars
    /\ [][tailerPc # "start" => f_start' = f_start]_vars
    /\ [][(tailerPc = "update" /\ tailerPc' # "update") =>
             f_pos > f_start /\ f_pos' = f_pos]_vars
    /\ [](tailerPc \in {"update", "broadcast"} => f_pos > f_start)
    /\ [](tailerPc = "start" => broadcasts = <<>> /\ f_pos = 0)
    /\ [](tailerPc # "start" => f_start <= f_pos /\ f_pos <= Len(syslog))
    /\ [](\A i \in 1..Len(broadcasts) :
            /\ broadcasts[i].line > f_start
            /\ broadcasts[i].line <= f_pos)
    /\ [](\A i \in 1..Len(syslog) :
            Len(MessagesOf(i)) = IF i \in DoneLines THEN Sends(i) ELSE 0)
    /\ [](Increasing(LinesOf(broadcasts)))
    /\ [](\A c \in ConnIds :
            /\ Increasing(LinesOf(Received(c)))
            /\ \A i \in 1..Len(Received(c)) : Received(c)[i] \in Range(broadcasts)
            /\ c \in Range(clients) => Received(c) = broadcasts)
\* the tailer was started after the first line was written; that line was
\* left alone
C35_Witness ==
    /\ f_start = 1
    /\ Len(syslog) = 2
    /\ Len(broadcasts) = 1
    /\ Decide(syslog[1])[1] = "zone"
    /\ \E c \in ConnIds : c \in Range(clients) /\ Len(Received(c)) = 1
                          /\ Received(c)[1].line = 2
    /\ tailerPc = "reading"
    /\ DOMAIN ZoneDict(Decide(syslog[1])[2]) \cap {Decide(syslog[1])[3]} = {}

\* ------------------------------------------------------------------------
\* SpecLightWriters: the three writers of the light cache side by side: the
\* log tailer on DimmerSet lines, the persistent listener in its first session
\* and GET /lights/status, while the installer may change the light rows
\* ------------------------------------------------------------------------
InitLightWritersSpec ==
    /\ InitCache /\ InitThreads /\ InitCommand /\ InitTailer
    /\ Connected(0)
    /\ IdleCodec /\ Running /\ WatcherIdle /\ EntitiesIdle /\ SyncIdle /\ ClientIdle
    /\ SAVANT_UIS_PORT = FallbackPort
    /\ avahi = CommandFailed
    /\ Len(db) = 1
    /\ lutPc = "start"
    /\ socks = <<>>
    /\ lsock = 0
    /\ exc_tb = 0
    /\ waited = FALSE
    /\ attempts = 0
    /\ query = NoQuery
    /\ listener_map = EmptyDict
\* the installer changes the light rows of the configuration database
db_reconfigure(rows) ==
    /\ rows # db
    /\ db' = rows
    /\ UNCHANGED <<syslog, tailerPc, f_pos, f_start, tailerSnap, tailerKey, hadEntry, stored,
                   broadcasts>>
    /\ UNCHANGED <<cacheVars, threadVars, cmdVars, srvVars>>
InstallerReconfigures == \E rows \in DbConfigs : db_reconfigure(rows)
DimmerLogs ==
    \E line \in {l \in LogLines : l.event /\ l.command = "DimmerSet"} : syslog_append(line)
NextLightWriters ==
    \/ InstallerReconfigures
    \/ DimmerLogs
    \/ TailerOpens
    \/ TailerReads
    \/ TailerUpdates
    \/ TailerBroadcasts
    \/ LightsStatusRequest
    \/ RequestDone
    \/ ListenerStarts
    \/ ListenerOpensSocket
    \/ ListenerConnects
    \/ ListenerLogsIn
    \/ ListenerGetsData
SpecLightWriters == InitLightWritersSpec /\ [][NextLightWriters]_vars

LightKeys == DOMAIN heap[light_levels]
\* C36: every entry of the light cache has is_on true exactly when its level
\* is above zero, whether the tailer, the listener or GET /lights/status stored
\* it.
C36_IsOnFollowsLevel ==
    \A key \in LightKeys :
        LightDict(heap, key).is_on = (LightDict(heap, key).level > 0)
\* the listener stored the lamp at 75, a DimmerSet line of the log then set it
\* to 0, and GET /lights/status is about to store it again
C36_Witness ==
    /\ lutPc = "listening"
    /\ stored # NoObj
    /\ heap[light_levels]["den_lamp"] = stored
    /\ LightDict(heap, "den_lamp").level = 0
    /\ ~LightDict(heap, "den_lamp").is_on
    /\ \E o \in 1..Len(heap) : /\ o < stored
                               /\ "level" \in DOMAIN heap[o]
                               /\ heap[o].level > 0
                               /\ heap[o].is_on
    /\ handled = 0

\* the cached entries whose address is addr
EntriesAt(addr) == {k \in LightKeys : LightDict(heap, k).address = addr}
IsDimmerSet(i) == syslog[i].event /\ syslog[i].command = "DimmerSet"
\* a DimmerSet line without Address1, or whose Address1 no cached entry has
MatchesNoEntry(i) ==
    /\ IsDimmerSet(i)
    /\ IF "Address1" \in DOMAIN ArgsOf(i)
       THEN EntriesAt(ArgsOf(i)["Address1"]) = {}
       ELSE TRUE
\* the entries of the light cache that a step replaces, adds or drops
Rewritten ==
    {k \in DOMAIN heap[light_levels] \cup DOMAIN heap'[light_levels] :
        IF k \in DOMAIN heap[light_levels] /\ k \in DOMAIN heap'[light_levels]
        THEN heap'[light_levels][k] # heap[light_levels][k]
        ELSE TRUE}

\* C37: reading a DimmerSet line that has no Address1, or whose Address1 no
\* entry of the cache has, changes nothing in the cache and leads to no update
\* and no broadcast: the tailer goes on to the next line and no message of
\* that line ever exists. A DimmerSet line whose address is found leads to
\* one update, which replaces exactly one entry, one that had the address when
\* the tailer looked, however many entries have it, and to exactly one
\* light_state message.
C37_OneEntryPerDimmerSet ==
    /\ [][(TailerReadsLine /\ MatchesNoEntry(f_pos + 1)) =>
             /\ CacheValue' = CacheValue
             /\ broadcasts' = broadcasts
             /\ tailerPc' = "reading"]_vars
    /\ [][(tailerPc # "update" /\ tailerPc' = "update") => TailerReadsLine]_vars
    /\ [][TailerWritesLight =>
             /\ Rewritten = {tailerKey}
             /\ tailerKey \in DOMAIN heap[tailerSnap]
             /\ heap[heap[tailerSnap][tailerKey]].address = ArgsOf(f_pos)["Address1"]
             /\ LightDict(heap', tailerKey).address = ArgsOf(f_pos)["Address1"]
             /\ broadcasts' = broadcasts]_vars
    /\ [][(tailerPc = "broadcast" /\ tailerPc' # "broadcast") =>
             /\ tailerPc' = "reading"
             /\ Len(broadcasts') = Len(broadcasts) + 1
             /\ Rewritten = {}]_vars
    /\ [](\A i \in DoneLines :
             IsDimmerSet(i) =>
                 IF i \in hadEntry
                 THEN /\ Len(MessagesOf(i)) = 1
                      /\ MessagesOf(i)[1].message.type = "light_state"
                 ELSE MessagesOf(i) = <<>>)
\* two entries of the cache had address 14 when the tailer looked; it has
\* rewritten one of them and sent one message, the other is as it was
C37_Witness ==
    /\ tailerPc = "reading"
    /\ Len(broadcasts) = 1
    /\ stored # NoObj
    /\ \E k1, k2 \in LightKeys :
          /\ k1 # k2
          /\ {k1, k2} \subseteq DOMAIN heap[tailerSnap]
          /\ heap[heap[tailerSnap][k1]].address = <<"1", "4">>
          /\ heap[heap[tailerSnap][k2]].address = <<"1", "4">>
          /\ heap[light_levels][k1] = stored
          /\ heap[light_levels][k2] = heap[tailerSnap][k2]
          /\ LightDict(heap, k1).level # LightDict(heap, k2).level

\* ------------------------------------------------------------------------
\* SpecClient: SavantClient.start_websocket and stop_websocket and the tasks
\* running _websocket_loop, on one event loop: a coroutine runs without
\* interruption from one await to the next
\* ------------------------------------------------------------------------
besideClient == <<cacheVars, threadVars, cmdVars, tailVars, wsVars, frameVars, bootVars,
                  watchVars, lutVars, haVars, syncVars>>
TaskIds == 1..Len(tasks)
Finished(t) == tasks[t].state \in {"done", "cancelled"}
MoveTask(t, state) == tasks' = [tasks EXCEPT ![t].state = state]

\* start_websocket has no await: the whole call is one step
start_websocket ==
    /\ starts < MaxStarts
    /\ starts' = starts + 1
    /\ IF ws_running
       THEN UNCHANGED <<ws_running, ws_task, tasks>>
       ELSE /\ ws_running' = TRUE
            /\ tasks' = Append(tasks, [state |-> "created", cancel |-> FALSE])
            /\ ws_task' = Len(tasks) + 1
    /\ UNCHANGED stops
    /\ UNCHANGED besideClient

\* stop_websocket up to `await self._ws_task'; cancel() does nothing to a task
\* that has ended
stop_begin(s) ==
    /\ stops[s].pc = "idle"
    /\ \A r \in StopIds : r < s => stops[r].pc # "idle"
    /\ ws_running' = FALSE
    /\ IF ws_task # NoTask
       THEN /\ tasks' = [tasks EXCEPT ![ws_task].cancel = ~Finished(ws_task)]
            /\ stops' = [stops EXCEPT ![s] = [pc |-> "awaiting", task |-> ws_task,
                                                begun_at |-> starts]]
       ELSE /\ stops' = [stops EXCEPT ![s] = [pc |-> "returned", task |-> NoTask,
                                                begun_at |-> starts]]
            /\ UNCHANGED tasks
    /\ UNCHANGED <<ws_task, starts>>
    /\ UNCHANGED besideClient

\* the awaited task has ended: CancelledError is passed over,
\* `self._ws_task = None', and the call returns
stop_end(s) ==
    /\ stops[s].pc = "awaiting"
    /\ Finished(stops[s].task)
    /\ ws_task' = NoTask
    /\ stops' = [stops EXCEPT ![s].pc = "returned"]
    /\ UNCHANGED <<ws_running, tasks, starts>>
    /\ UNCHANGED besideClient

\* a task whose cancellation was requested gets CancelledError where it waits
\* (or before its first step); _websocket_loop passes it on and the task ends
task_cancelled(t) ==
    /\ ~Finished(t)
    /\ tasks[t].cancel
    /\ MoveTask(t, "cancelled")
    /\ UNCHANGED <<ws_running, ws_task, stops, starts>>
    /\ UNCHANGED besideClient

\* `while self._ws_running:', reached when the task starts and after the sleep
task_loop(t) ==
    /\ tasks[t].state \in {"created", "sleeping"}
    /\ ~tasks[t].cancel
    /\ MoveTask(t, IF ws_running THEN "connecting" ELSE "done")
    /\ UNCHANGED <<ws_running, ws_task, stops, starts>>
    /\ UNCHANGED besideClient

\* the end of a session: `if self._ws_running: await asyncio.sleep(5)' and,
\* without the sleep, the loop condition at once
AfterSession == IF ws_running THEN "sleeping" ELSE "done"

\* session.ws_connect(self._ws_url): the connection is made or an exception is
\* logged
task_connect(t, ok) ==
    /\ tasks[t].state = "connecting"
    /\ ~tasks[t].cancel
    /\ MoveTask(t, IF ok THEN "connected" ELSE AfterSession)
    /\ UNCHANGED <<ws_running, ws_task, stops, starts>>
    /\ UNCHANGED besideClient

\* async for msg in ws: the loop over the messages ends (ERROR, CLOSED, the
\* end of the stream or an exception); a text message leaves the task where
\* it is
task_closed(t) ==
    /\ tasks[t].state = "connected"
    /\ ~tasks[t].cancel
    /\ MoveTask(t, AfterSession)
    /\ UNCHANGED <<ws_running, ws_task, stops, starts>>
    /\ UNCHANGED besideClient

StartCalled == start_websocket
StopCalled == \E s \in StopIds : stop_begin(s)
StopReturns == \E s \in StopIds : stop_end(s)
TaskCancelled == \E t \in TaskIds : task_cancelled(t)
TaskChecksLoop == \E t \in TaskIds : task_loop(t)
TaskConnects == \E t \in TaskIds : \E ok \in BOOLEAN : task_connect(t, ok)
TaskSessionEnds == \E t \in TaskIds : task_closed(t)
InitClientSpec ==
    /\ InitCache /\ InitThreads /\ InitCommand /\ InitTailer
    /\ InitWs /\ IdleCodec /\ Running
    /\ WatcherIdle /\ ListenerDisabled /\ EntitiesIdle /\ SyncIdle /\ ClientIdle
    /\ SAVANT_UIS_PORT = FallbackPort
    /\ avahi = CommandFailed
    /\ Len(db) = 1
NextClient ==
    \/ StartCalled
    \/ StopCalled
    \/ StopReturns
    \/ TaskCancelled
    \/ TaskChecksLoop
    \/ TaskConnects
    \/ TaskSessionEnds
SpecClient == InitClientSpec /\ [][NextClient]_vars

\* the stop_websocket calls that have returned and that began when every
\* start_websocket call made so far had returned
LateStops == {s \in StopIds : stops[s].pc = "returned" /\ stops[s].begun_at = starts}

\* a task that has ended, or that can do nothing but end: cancel() has been
\* called on it
Stopped(t) == Finished(t) \/ tasks[t].cancel

\* C40: once a stop_websocket call has returned that began after every
\* start_websocket call, every listener task of the client has ended (a task
\* whose cancellation is under way counts as ended), and from then on no task
\* begins a connection attempt.
C40_StopEndsListener ==
    /\ [](LateStops # {} => \A t \in TaskIds : Stopped(t))
    /\ [][(LateStops # {} /\ starts' = starts) =>
             \A t \in TaskIds :
                 tasks'[t].state = "connecting" => tasks[t].state = "connecting"]_vars

====
